---- MODULE Spec2Model ----
(***************************************************************************)
(* Model of the checkupy body-composition engine:                          *)
(*   - checkupy/checkupy.py   BIAInput, Fitness, Standard, Inbody,         *)
(*                            CheckupBIA                                   *)
(*   - checkupy/onnx_models.py OnnxModel.predict                           *)
(*   - pyakern/equations.py   BIAMeasure                                   *)
(*   - pyakern/src/corrections.py  _apply and the coefficient table        *)
(*                                                                         *)
(* Arithmetic.  A stored electrical value is kept in exact arithmetic as   *)
(* the number supplied (v) followed by the reduced word (w) of linear      *)
(* maps x -> x*b1 + b0 (sign 1) and x -> (x - b0)/b1 (sign -1) that the     *)
(* code has applied to it.  A map directly followed by its own inverse     *)
(* (same b0, same b1, b1 # 0) cancels, which is the only identity between   *)
(* these maps for the coefficient tables of the program.  IEEE rounding of *)
(* the float operations is not modelled.                                   *)
(*                                                                         *)
(* Python values carry their dynamic type (None, builtin int / float,      *)
(* numpy scalar) because the code's behaviour on a missing value or on a   *)
(* builtin scalar is decided by it.  A raised exception is a value of      *)
(* type "exception" that every operator propagates.                        *)
(***************************************************************************)
EXTENDS Integers, Sequences, FiniteSets, TLC

VARIABLES
    args,       \* CheckupBIA.__init__ arguments
    pc,         \* position inside CheckupBIA.__init__
    attrs,      \* CheckupBIA instance attributes _fitness, _standard, _inbody
    betas,      \* BIAInput class-level orthostatic coefficients
    raised,     \* exception leaving CheckupBIA.__init__ ("" when none)
    runs,       \* number of InferenceSession.run invocations
    preds,      \* keys of Inbody._preds
    bia,        \* a BIAMeasure instance (pyakern)
    given,      \* last value handed to BIAMeasure for each input
    nsets,      \* number of BIAMeasure setter calls after construction
    v0,         \* value handed to the first corrections._apply call
    cur,        \* result of the last corrections._apply call
    calls       \* corrections._apply calls made so far, each with the
                \* value it was handed (inp) and its result (out)

vars == <<args, pc, attrs, betas, raised, runs, preds, bia, given, nsets, v0, cur, calls>>

checkupVars == <<args, pc, attrs, betas, raised, runs, preds>>
measureVars == <<bia, given, nsets>>
corrVars    == <<v0, cur, calls>>

---------------------------------------------------------------------------
(* Bounds *)

MaxMissing == 1     \* segment values that are None at construction
MaxSets    == 1     \* BIAMeasure setter calls after construction
MaxApply   == 2     \* chained corrections._apply calls
MaxCalls   == 2     \* correction method calls on constructed instances

---------------------------------------------------------------------------
(* Python values *)

None == [k |-> "None", v |-> 0, w |-> <<>>, ty |-> "NoneType"]
NaN  == [k |-> "nan", v |-> 0, w |-> <<>>, ty |-> "float"]
Inf  == [k |-> "inf", v |-> 0, w |-> <<>>, ty |-> "float"]
Num(n, t) == [k |-> "num", v |-> n, w |-> <<>>, ty |-> t]
Exc(name) == [k |-> name, v |-> 0, w |-> <<>>, ty |-> "exception"]

IsExc(x)  == x.ty = "exception"
IsNone(x) == x.k = "None"
IsNum(x)  == x.k = "num"

\* decimal literal sign * (whole + frac9 / 10^9)
Dec(sign, whole, frac9) == <<sign, whole, frac9>>
IsZero(d) == d[2] = 0 /\ d[3] = 0

\* x -> x*b1 + b0 (s = 1) or x -> (x - b0)/b1 (s = -1) appended to a word
Push(w, b0, b1, s) ==
    IF Len(w) > 0 /\ w[Len(w)] = <<b0, b1, -s>> /\ ~IsZero(b1)
    THEN SubSeq(w, 1, Len(w) - 1)
    ELSE Append(w, <<b0, b1, s>>)

---------------------------------------------------------------------------
(* checkupy.BIAInput *)

Segs == {"left_arm_resistance", "left_arm_reactance",
         "left_leg_resistance", "left_leg_reactance",
         "left_trunk_resistance", "left_trunk_reactance",
         "left_body_resistance", "left_body_reactance",
         "right_arm_resistance", "right_arm_reactance",
         "right_leg_resistance", "right_leg_reactance",
         "right_trunk_resistance", "right_trunk_reactance",
         "right_body_resistance", "right_body_reactance"}

TrunkSegs == {"left_trunk_resistance", "left_trunk_reactance",
              "right_trunk_resistance", "right_trunk_reactance"}

\* order in which apply_/remove_orthostatic_correction rewrite the values
SegOrder == <<"left_arm_resistance", "left_arm_reactance",
              "left_leg_resistance", "left_leg_reactance",
              "left_trunk_resistance", "left_trunk_reactance",
              "left_body_resistance", "left_body_reactance",
              "right_arm_resistance", "right_arm_reactance",
              "right_leg_resistance", "right_leg_reactance",
              "right_trunk_resistance", "right_trunk_reactance",
              "right_body_resistance", "right_body_reactance">>

\* class attributes _<segment>_betas = (b0, b1)
ClassBetas ==
    [s \in Segs |->
        CASE s = "left_arm_resistance"    -> <<Dec(-1, 5, 929064000), Dec(1, 0, 874883000)>>
          [] s = "left_arm_reactance"     -> <<Dec(1, 3, 304037000), Dec(1, 0, 686138000)>>
          [] s = "left_body_resistance"   -> <<Dec(1, 29, 735312000), Dec(1, 0, 893878000)>>
          [] s = "left_body_reactance"    -> <<Dec(-1, 5, 850700000), Dec(1, 1, 77053000)>>
          [] s = "left_leg_resistance"    -> <<Dec(1, 22, 703793000), Dec(1, 0, 988802000)>>
          [] s = "left_leg_reactance"     -> <<Dec(-1, 0, 196244000), Dec(1, 0, 988221000)>>
          [] s = "left_trunk_resistance"  -> <<Dec(1, 2, 874024000), Dec(1, 0, 868278000)>>
          [] s = "left_trunk_reactance"   -> <<Dec(1, 7, 535099000), Dec(1, 0, 28624000)>>
          [] s = "right_arm_resistance"   -> <<Dec(-1, 17, 392322000), Dec(1, 0, 904717000)>>
          [] s = "right_arm_reactance"    -> <<Dec(1, 1, 392877000), Dec(1, 0, 782267000)>>
          [] s = "right_body_resistance"  -> <<Dec(-1, 13, 248009000), Dec(1, 0, 971554000)>>
          [] s = "right_body_reactance"   -> <<Dec(1, 4, 612482000), Dec(1, 0, 886881000)>>
          [] s = "right_leg_resistance"   -> <<Dec(1, 3, 174666000), Dec(1, 1, 71437000)>>
          [] s = "right_leg_reactance"    -> <<Dec(-1, 0, 259402000), Dec(1, 0, 991873000)>>
          [] s = "right_trunk_resistance" -> <<Dec(1, 0, 973686000), Dec(1, 1, 38562000)>>
          [] s = "right_trunk_reactance"  -> <<Dec(1, 8, 288528000), Dec(-1, 0, 53032000)>>]

\* an instance of BIAInput or of a subclass; state is "ok" or the name of
\* the exception that left the constructor
Instance(state, age, sex, hcm, wgt, vals, corrected) ==
    [state |-> state, age |-> age, sex |-> sex, hcm |-> hcm, wgt |-> wgt,
     vals |-> vals, corrected |-> corrected]

NoInstance ==
    Instance("absent", 0, "M", 0, 0, [s \in Segs |-> None], FALSE)

is_corrected(o) == o.corrected

is_male(o) == o.sex = "M"

\* lsq(x, y) = sum(prod(pair) for pair in zip([1, x], y)) = 1*y[0] + x*y[1]
lsq(x, y) ==
    IF IsExc(x) THEN x
    ELSE IF IsNone(x) THEN Exc("TypeError")
    ELSE IF x.k # "num" THEN x
    ELSE [x EXCEPT !.w = Push(x.w, y[1], y[2], 1)]

\* ilsq(x, y) = (x - y[0]) / y[1]
ilsq(x, y) ==
    IF IsExc(x) THEN x
    ELSE IF IsNone(x) THEN Exc("TypeError")
    ELSE IF IsZero(y[2]) THEN Exc("ZeroDivisionError")
    ELSE IF x.k # "num" THEN x
    ELSE [x EXCEPT !.w = Push(x.w, y[1], y[2], -1)]

\* the sixteen set_<segment>(f(self.<segment>, self._<segment>_betas)) calls,
\* in SegOrder, with f = ilsq when inverse and f = lsq otherwise; the first
\* exception leaves the method
Rewrite(o, bts, inverse) ==
    LET new == [s \in Segs |-> IF inverse THEN ilsq(o.vals[s], bts[s])
                                          ELSE lsq(o.vals[s], bts[s])]
        bad == {i \in 1..Len(SegOrder) : IsExc(new[SegOrder[i]])}
        first == CHOOSE i \in bad : \A j \in bad : i <= j
    IN  IF bad = {} THEN [o EXCEPT !.vals = new]
        ELSE [o EXCEPT !.state = new[SegOrder[first]].k]

apply_orthostatic_correction(o, bts) ==
    IF ~is_corrected(o) THEN Rewrite(o, bts, FALSE) ELSE o

remove_orthostatic_correction(o, bts) ==
    IF is_corrected(o) THEN Rewrite(o, bts, TRUE) ELSE o

set_height_rounded(h10) == (h10 + 5) \div 10

\* set_height: int(hcm); heights are handed over in tenths of a centimetre
set_height(h10) == h10 \div 10

BIAInput_init(a, bts) ==
    LET o == Instance("ok", a.age, a.sex, set_height(a.height), a.weight,
                      a.vals, a.corrected)
    IN  IF is_corrected(o) THEN remove_orthostatic_correction(o, bts) ELSE o

Fitness_init(a, bts) ==
    LET o == BIAInput_init(a, bts)
    IN  IF o.state # "ok" THEN o ELSE remove_orthostatic_correction(o, bts)

Standard_init(a, bts) ==
    LET o == Fitness_init(a, bts)
    IN  IF o.state # "ok" THEN o ELSE apply_orthostatic_correction(o, bts)

---------------------------------------------------------------------------
(* Python arithmetic on the values above *)

\* a finite float computed from numeric operands (magnitude not tracked)
Computed == [k |-> "computed", v |-> 0, w |-> <<>>, ty |-> "float"]

IsNumeric(x) == x.k \in {"num", "computed"}

\* a stored number that is exactly zero
IsZeroValue(x) == x.k = "num" /\ x.w = <<>> /\ x.v = 0

\* an arithmetic expression over the operands xs, evaluated left to right:
\* an operand that raised propagates, None is not an operand of + - * / **,
\* nan is absorbing
Arith(xs) ==
    LET excs == {i \in DOMAIN xs : IsExc(xs[i])}
    IN  IF excs # {} THEN xs[CHOOSE i \in excs : \A j \in excs : i <= j]
        ELSE IF \E i \in DOMAIN xs : IsNone(xs[i]) THEN Exc("TypeError")
        ELSE IF \E i \in DOMAIN xs : xs[i].k = "nan" THEN NaN
        ELSE Computed

\* num / den
Div(num, den) ==
    IF IsExc(num) THEN num
    ELSE IF IsExc(den) THEN den
    ELSE IF IsNone(num) \/ IsNone(den) THEN Exc("TypeError")
    ELSE IF IsZeroValue(den) THEN Exc("ZeroDivisionError")
    ELSE Arith(<<num, den>>)

\* float(self.is_male()) as an operand: always a number
Flag == Computed

---------------------------------------------------------------------------
(* checkupy.BIAInput and checkupy.Fitness properties *)

age(o)    == Num(o.age, "int")
weight(o) == Num(o.wgt, "float")
height(o) == Num(o.hcm, "int")

segment(o, s) == o.vals[s]

_phaseangle_deg(res, rea) == Arith(<<Div(rea, res)>>)

impedance(o, seg) ==
    Arith(<<segment(o, seg \o "_resistance"), segment(o, seg \o "_reactance")>>)

phaseangle(o, seg) ==
    _phaseangle_deg(segment(o, seg \o "_resistance"),
                    segment(o, seg \o "_reactance"))

total_resistance(o, region) ==
    Arith(<<segment(o, "left_" \o region \o "_resistance"),
            segment(o, "right_" \o region \o "_resistance")>>)

total_reactance(o, region) ==
    Arith(<<segment(o, "left_" \o region \o "_reactance"),
            segment(o, "right_" \o region \o "_reactance")>>)

total_impedance(o, region) ==
    Arith(<<impedance(o, "right_" \o region), impedance(o, "left_" \o region)>>)

total_phaseangle(o, region) ==
    Arith(<<phaseangle(o, "right_" \o region), phaseangle(o, "left_" \o region)>>)

_trunk_appendicular_index(o) ==
    Arith(<<segment(o, "left_trunk_resistance"),
            segment(o, "right_trunk_resistance"),
            segment(o, "left_arm_resistance"),
            segment(o, "left_leg_resistance"),
            segment(o, "right_arm_resistance"),
            segment(o, "right_leg_resistance")>>)

bmi(o) ==
    IF o.hcm = 0 THEN Exc("ZeroDivisionError")
    ELSE Arith(<<weight(o), height(o)>>)

\* the eight-term whole-body regressions of Fitness
WholeBodyRegression(o) ==
    Arith(<<weight(o), age(o),
            Div(height(o), total_resistance(o, "body")),
            total_reactance(o, "body"),
            Div(height(o), total_impedance(o, "body")),
            total_phaseangle(o, "body"),
            Div(height(o), total_phaseangle(o, "body"))>>)

limb_fatfreemass(o, limb) ==
    Arith(<<Div(height(o), segment(o, limb \o "_resistance")),
            _trunk_appendicular_index(o), Flag>>)

limb_fatmass(o, limb) ==
    Arith(<<bmi(o), phaseangle(o, limb), Flag>>)

FitnessOutputs ==
    {"total_body_water", "total_body_extracellularwater",
     "total_body_intracellularwater", "total_body_fatfreemass",
     "total_body_fatmass", "total_body_bonemineralcontent",
     "total_body_softleanmass", "total_body_skeletalmusclemass",
     "total_body_basalmetabolicrate",
     "left_arm_fatfreemass", "left_arm_fatmass",
     "right_arm_fatfreemass", "right_arm_fatmass",
     "left_leg_fatfreemass", "left_leg_fatmass",
     "right_leg_fatfreemass", "right_leg_fatmass",
     "total_trunk_fatfreemass", "total_trunk_fatmass"}

\* Fitness.<name>, evaluated on the instance o
Fitness_get(o, name) ==
    CASE name \in {"total_body_water", "total_body_extracellularwater",
                   "total_body_fatfreemass", "total_body_skeletalmusclemass"}
            -> WholeBodyRegression(o)
      [] name = "total_body_intracellularwater"
            -> Arith(<<WholeBodyRegression(o), WholeBodyRegression(o)>>)
      [] name = "total_body_fatmass"
            -> Arith(<<weight(o), WholeBodyRegression(o)>>)
      [] name = "total_body_bonemineralcontent"
            -> Arith(<<weight(o),
                       Div(height(o), total_resistance(o, "body")),
                       total_reactance(o, "body"),
                       Div(height(o), total_reactance(o, "body"))>>)
      [] name = "total_body_softleanmass"
            -> Arith(<<WholeBodyRegression(o),
                       Arith(<<weight(o),
                               Div(height(o), total_resistance(o, "body")),
                               total_reactance(o, "body"),
                               Div(height(o), total_reactance(o, "body"))>>)>>)
      [] name = "total_body_basalmetabolicrate"
            -> Arith(<<WholeBodyRegression(o), Flag, total_reactance(o, "body")>>)
      [] name = "left_arm_fatfreemass"  -> limb_fatfreemass(o, "left_arm")
      [] name = "right_arm_fatfreemass" -> limb_fatfreemass(o, "right_arm")
      [] name = "left_leg_fatfreemass"  -> limb_fatfreemass(o, "left_leg")
      [] name = "right_leg_fatfreemass" -> limb_fatfreemass(o, "right_leg")
      [] name = "left_arm_fatmass"  -> limb_fatmass(o, "left_arm")
      [] name = "right_arm_fatmass" -> limb_fatmass(o, "right_arm")
      [] name = "left_leg_fatmass"  -> limb_fatmass(o, "left_leg")
      [] name = "right_leg_fatmass" -> limb_fatmass(o, "right_leg")
      [] name = "total_trunk_fatfreemass"
            -> Arith(<<weight(o),
                       Div(height(o), total_resistance(o, "trunk")),
                       total_reactance(o, "trunk"),
                       Div(height(o), total_phaseangle(o, "trunk")),
                       Flag,
                       Div(height(o), total_reactance(o, "trunk")),
                       total_impedance(o, "trunk")>>)
      [] name = "total_trunk_fatmass"
            -> Arith(<<bmi(o), total_resistance(o, "trunk"), age(o)>>)

---------------------------------------------------------------------------
(* Magnitudes.  Where a verdict depends on the size of a number the value  *)
(* is evaluated in fixed point: Ohm in units of 10^-3, radians in units of *)
(* 10^-5, degrees in units of 10^-3.  A supplied value is exact; each      *)
(* correction map and each quotient is truncated to the unit.              *)

Abs(n) == IF n < 0 THEN -n ELSE n
Sgn(n) == IF n < 0 THEN -1 ELSE IF n = 0 THEN 0 ELSE 1

\* floor(a * 10^k / b) for a >= 0 and b > 0, digit by digit
RECURSIVE LongDiv(_, _, _)
LongDiv(a, b, k) ==
    IF k = 0 THEN a \div b
    ELSE (a \div b) * 10^k + LongDiv((a % b) * 10, b, k - 1)

\* m * d for an integer m and a decimal literal d, truncated
MulDec(m, d) ==
    LET a   == Abs(m)
        hi  == d[3] \div 1000000
        mid == (d[3] \div 1000) % 1000
        lo  == d[3] % 1000
    IN  Sgn(m) * d[1] * (a * d[2] + (a * hi) \div 1000
                         + (a * mid) \div 1000000
                         + ((a \div 1000) * lo) \div 1000000)

\* m / d for an integer m and a non-zero decimal literal d, truncated
DivDec(m, d) ==
    Sgn(m) * d[1] * LongDiv(Abs(m), d[2] * 1000000 + d[3] \div 1000, 6)

\* a decimal literal in units of 10^-3
DecMilli(d) == d[1] * (d[2] * 1000 + d[3] \div 1000000)

\* the maps of the word w, from the i-th on, applied to m
RECURSIVE EvalWord(_, _, _)
EvalWord(m, w, i) ==
    IF i > Len(w) THEN m
    ELSE LET b0 == w[i][1]
             b1 == w[i][2]
         IN  EvalWord(IF w[i][3] = 1 THEN MulDec(m, b1) + DecMilli(b0)
                      ELSE DivDec(m - DecMilli(b0), b1),
                      w, i + 1)

\* a stored number in units of 10^-3
Milli(x) == EvalWord(x.v * 1000, x.w, 1)

\* atan(x) for 0 <= x <= 0.43, x and the result in units of 10^-5
AtanSeries(x) ==
    LET p(a, b) == (a * b) \div 100000
        x2 == p(x, x)
        x3 == p(x2, x)
        x5 == p(x3, x2)
        x7 == p(x5, x2)
        x9 == p(x7, x2)
    IN  x - x3 \div 3 + x5 \div 5 - x7 \div 7 + x9 \div 9

\* atan(a / b) in units of 10^-5 rad for a >= 0, b >= 0, not both zero:
\* atan(x) = pi/2 - atan(1/x) = pi/4 + atan((x - 1)/(x + 1))
Atan(a, b) ==
    IF a * 5 <= b * 2 THEN AtanSeries(LongDiv(a, b, 5))
    ELSE IF a * 2 > b * 5 THEN 157080 - AtanSeries(LongDiv(b, a, 5))
    ELSE 78540 + Sgn(a - b) * AtanSeries(LongDiv(Abs(a - b), a + b, 5))

\* a float result in degrees, v in units of 10^-3
Deg(n) == [k |-> "deg", v |-> n, w |-> <<>>, ty |-> "float"]

\* a bool result
Bool(b) == [k |-> "bool", v |-> IF b THEN 1 ELSE 0, w |-> <<>>, ty |-> "bool"]

\* a division with a numpy operand is numpy's (inf or nan on a zero
\* divisor), any other is Python's (ZeroDivisionError)
NumpyDivision(a, b) == a.ty = "float64" \/ b.ty = "float64"

\* atan(x / r) * 180 / pi for r # 0, in units of 10^-3 degree (10^-5 rad
\* is 0.572957795 * 10^-3 degree)
AtanDeg(r, x) ==
    Sgn(r) * Sgn(x) * MulDec(Atan(Abs(x), Abs(r)), Dec(1, 0, 572957795))

\* float(atan(rea / res)) * 180 / pi
phaseangle_deg(res, rea) ==
    IF IsNone(res) \/ IsNone(rea) THEN Exc("TypeError")
    ELSE LET r == Milli(res)
             x == Milli(rea)
         IN  IF r # 0
             THEN Deg(AtanDeg(r, x))
             ELSE IF ~NumpyDivision(rea, res) THEN Exc("ZeroDivisionError")
             ELSE IF x = 0 THEN NaN
             ELSE Deg(Sgn(x) * 90000)

\* val / hgt >= bound and val / hgt <= bound with hgt = hcm / 100, val in
\* units of 10^-3; a zero hgt is reached with a numpy val only
RatioGt(m, hcm, bound) ==
    IF hcm = 0 THEN m > 0 ELSE m * 100 > bound * 1000 * hcm

RatioGe(m, hcm, bound) ==
    IF hcm = 0 THEN m > 0 ELSE m * 100 >= bound * 1000 * hcm

RatioLe(m, hcm, bound) ==
    IF hcm = 0 THEN m < 0 ELSE m * 100 <= bound * 1000 * hcm

\* the six checks of one side in is_valid, or the exception that the
\* statements of that side raise
SideChecks(o, side) ==
    LET res == segment(o, side \o "_body_resistance")
        rea == segment(o, side \o "_body_reactance")
        pha == phaseangle_deg(res, rea)
        hgt == Num(o.hcm, "float")
    IN  IF IsExc(pha) THEN pha
        ELSE IF o.hcm = 0 /\ ~NumpyDivision(res, hgt)
             THEN Exc("ZeroDivisionError")
        ELSE Bool(/\ RatioGe(Milli(res), o.hcm, 200)
                  /\ RatioLe(Milli(res), o.hcm, 600)
                  /\ RatioGe(Milli(rea), o.hcm, 10)
                  /\ RatioLe(Milli(rea), o.hcm, 60)
                  /\ pha.k = "deg" /\ pha.v >= 3000
                  /\ pha.k = "deg" /\ pha.v <= 12000)

\* BIAInput.is_valid: bool(valid) or the exception raised
is_valid(o) ==
    LET left  == SideChecks(o, "left")
        right == SideChecks(o, "right")
        lpha  == phaseangle_deg(segment(o, "left_body_resistance"),
                                segment(o, "left_body_reactance"))
        rpha  == phaseangle_deg(segment(o, "right_body_resistance"),
                                segment(o, "right_body_reactance"))
    IN  IF IsExc(left) THEN left
        ELSE IF IsExc(right) THEN right
        ELSE Bool(/\ left.v = 1
                  /\ right.v = 1
                  /\ lpha.k = "deg" /\ rpha.k = "deg"
                  /\ Abs(lpha.v - rpha.v) <= 1000)

\* floor(sqrt(n)) for n > 0 by Newton's iteration from a guess g >= sqrt(n)
RECURSIVE Isqrt(_, _)
Isqrt(n, g) ==
    LET h == (g + n \div g) \div 2
    IN  IF h >= g THEN g ELSE Isqrt(n, h)

\* (res**2 + rea**2) ** 0.5 in units of 10^-1, res and rea in units of 10^-3
Hypot(r, x) ==
    LET n == (Abs(r) \div 100) * (Abs(r) \div 100)
             + (Abs(x) \div 100) * (Abs(x) \div 100)
    IN  IF n = 0 THEN 0 ELSE Isqrt(n, n)

\* the magnitudes of the total_<region>_* properties of an instance whose
\* values of the region are numbers with non-zero resistances: Ohm and
\* degrees in units of 10^-3
total_resistance_ohm(o, region) ==
    (Milli(segment(o, "left_" \o region \o "_resistance"))
     + Milli(segment(o, "right_" \o region \o "_resistance"))) \div 2

total_reactance_ohm(o, region) ==
    (Milli(segment(o, "left_" \o region \o "_reactance"))
     + Milli(segment(o, "right_" \o region \o "_reactance"))) \div 2

impedance_ohm(o, seg) ==
    100 * Hypot(Milli(segment(o, seg \o "_resistance")),
                Milli(segment(o, seg \o "_reactance")))

total_impedance_ohm(o, region) ==
    (impedance_ohm(o, "right_" \o region)
     + impedance_ohm(o, "left_" \o region)) \div 2

total_phaseangle_deg(o, region) ==
    (phaseangle_deg(segment(o, "right_" \o region \o "_resistance"),
                    segment(o, "right_" \o region \o "_reactance")).v
     + phaseangle_deg(segment(o, "left_" \o region \o "_resistance"),
                      segment(o, "left_" \o region \o "_reactance")).v)
    \div 2

\* a float result, v in units of 10^-6
Ratio(n) == [k |-> "ratio", v |-> n, w |-> <<>>, ty |-> "float"]

\* num / den in units of 10^-6 for den # 0
Quotient(num, den) ==
    Sgn(num) * Sgn(den) * LongDiv(Abs(num), Abs(den), 6)

trunk_appendicular_index_halved(o) ==
    LET trunk == <<segment(o, "left_trunk_resistance"),
                   segment(o, "right_trunk_resistance")>>
        limbs == <<segment(o, "left_arm_resistance"),
                   segment(o, "left_leg_resistance"),
                   segment(o, "right_arm_resistance"),
                   segment(o, "right_leg_resistance")>>
        den   == Milli(limbs[1]) + Milli(limbs[2])
                 + Milli(limbs[3]) + Milli(limbs[4])
    IN  IF \E i \in 1..2 : IsNone(trunk[i]) THEN Exc("TypeError")
        ELSE IF \E i \in 1..4 : IsNone(limbs[i]) THEN Exc("TypeError")
        ELSE IF den = 0 THEN Exc("ZeroDivisionError")
        ELSE Ratio(Quotient(Milli(trunk[1]) + Milli(trunk[2]), den))

\* BIAInput._trunk_appendicular_index with its magnitude:
\* float(2 * (left_trunk + right_trunk) / (the four limb resistances))
trunk_appendicular_index_value(o) ==
    LET trunk == <<segment(o, "left_trunk_resistance"),
                   segment(o, "right_trunk_resistance")>>
        limbs == <<segment(o, "left_arm_resistance"),
                   segment(o, "left_leg_resistance"),
                   segment(o, "right_arm_resistance"),
                   segment(o, "right_leg_resistance")>>
        den   == Milli(limbs[1]) + Milli(limbs[2])
                 + Milli(limbs[3]) + Milli(limbs[4])
    IN  IF \E i \in 1..2 : IsNone(trunk[i]) THEN Exc("TypeError")
        ELSE IF \E i \in 1..4 : IsNone(limbs[i]) THEN Exc("TypeError")
        ELSE IF den = 0 THEN Exc("ZeroDivisionError")
        ELSE Ratio(Quotient(2 * (Milli(trunk[1]) + Milli(trunk[2])), den))

\* BIAInput.bmi with its magnitude, in units of 10^-3:
\* self.weight / (self.height / 100) ** 2
bmi_value(o) ==
    IF o.hcm = 0 THEN Exc("ZeroDivisionError")
    ELSE [k |-> "milli", v |-> LongDiv(o.wgt * 10000, o.hcm * o.hcm, 3),
          w |-> <<>>, ty |-> "float"]

---------------------------------------------------------------------------
(* checkupy.onnx_models.OnnxModel *)

\* Python types that have an astype method
HasAstype == {"float64", "ndarray"}

\* Python types routed through .values by the dict branch
HasValues == {"DataFrame", "Series"}

Range(f) == {f[i] : i \in DOMAIN f}

predict_unchecked(model, data) ==
    IF data.kind \in {"ndarray", "dataframe", "dict"}
    THEN [exc |-> "", runs |-> 1,
          out |-> IF data.kind = "ndarray" THEN {}
                  ELSE Range(model.output_labels)]
    ELSE [exc |-> "TypeError", runs |-> 0, out |-> {}]

\* predict(data): exc is the exception raised ("" when none), runs the
\* number of session.run invocations, out the keys of the returned mapping
predict(model, data) ==
    LET labels == model.input_labels
        target_cols == Len(labels)
        has_all == \A i \in DOMAIN labels : labels[i] \in data.keys
        fail(e) == [exc |-> e, runs |-> 0, out |-> {}]
        done == [exc |-> "", runs |-> 1,
                 out |-> IF data.kind = "ndarray" THEN {}
                         ELSE Range(model.output_labels)]
    IN  CASE data.kind = "ndarray" ->
                IF data.ndim # 2 \/ data.ncols # target_cols
                THEN fail("ValueError") ELSE done
          [] data.kind = "dataframe" ->
                IF ~has_all THEN fail("ValueError") ELSE done
          [] data.kind = "dict" ->
                IF ~has_all THEN fail("ValueError")
                ELSE IF \E i \in DOMAIN labels :
                            /\ data.ty[labels[i]] \notin HasValues
                            /\ data.ty[labels[i]] \notin HasAstype
                     THEN fail("AttributeError")
                     ELSE done
          [] OTHER -> fail("TypeError")

---------------------------------------------------------------------------
(* checkupy.Inbody *)

input_labels ==
    <<"height", "weight", "age",
      "left_arm_resistance", "left_arm_reactance",
      "left_leg_resistance", "left_leg_reactance",
      "left_body_resistance", "left_body_reactance",
      "right_arm_resistance", "right_arm_reactance",
      "right_leg_resistance", "right_leg_reactance",
      "right_body_resistance", "right_body_reactance">>

output_labels ==
    <<"total_body_basalmetabolicrate", "total_body_proteins",
      "total_body_minerals", "target_weight", "total_body_phaseangle",
      "total_body_phaseanglecorrected", "total_body_fatmass",
      "total_body_fatmassperc", "total_body_fatmassindex",
      "total_body_fatfreemass", "total_body_fatfreemassperc",
      "total_body_fatfreemassindex", "total_body_bonemineralcontentperc",
      "total_body_bonemineralcontent", "total_body_softleanmass",
      "total_body_softleanmassperc", "total_body_skeletalmusclemass",
      "total_body_skeletalmusclemassperc",
      "total_body_skeletalmusclemassindex", "left_arm_fatmass",
      "left_arm_fatfreemassperc", "left_leg_fatmass", "left_leg_fatmassperc",
      "left_leg_fatfreemass", "left_leg_fatfreemassperc", "right_arm_fatmass",
      "right_arm_fatmassperc", "right_arm_fatfreemass",
      "right_arm_fatfreemassperc", "right_leg_fatmass",
      "right_leg_fatmassperc", "right_leg_fatfreemass",
      "right_leg_fatfreemassperc", "total_trunk_fatmass",
      "total_trunk_fatmassperc", "total_trunk_fatfreemass",
      "total_trunk_fatfreemassperc", "total_body_water",
      "total_body_waterperc", "total_body_extracellularwater",
      "total_body_extracellularwaterperc", "total_body_intracellularwater",
      "total_body_intracellularwaterperc", "ecw_on_icw">>

_onnx_model == [input_labels |-> input_labels, output_labels |-> output_labels]

\* getattr(self, label) for a label of input_labels
getattr(o, label) ==
    CASE label = "height" -> height(o)
      [] label = "weight" -> weight(o)
      [] label = "age"    -> age(o)
      [] OTHER            -> segment(o, label)

\* inputs = {i: getattr(self, i) for i in self._onnx_model.input_labels}
Inbody_inputs(o) ==
    [kind |-> "dict", ndim |-> 0, ncols |-> 0,
     keys |-> Range(input_labels),
     ty |-> [l \in Range(input_labels) |-> getattr(o, l).ty],
     val |-> [l \in Range(input_labels) |-> getattr(o, l)]]

Inbody_init_forwarding(a, bts) ==
    LET o == Fitness_init([a EXCEPT !.corrected = FALSE], bts)
        p == predict(_onnx_model, Inbody_inputs(o))
    IN  IF o.state # "ok" THEN [obj |-> o, runs |-> 0, preds |-> {}]
        ELSE IF p.exc # "" THEN [obj |-> [o EXCEPT !.state = p.exc],
                                 runs |-> p.runs, preds |-> {}]
        ELSE [obj |-> o, runs |-> p.runs, preds |-> p.out]

\* Inbody.__init__: the instance, the session.run count and the _preds keys
Inbody_init(a, bts) ==
    LET o == Fitness_init(
                [a EXCEPT !.sex = "M",
                          !.vals = [s \in Segs |->
                                      IF s \in TrunkSegs THEN NaN ELSE a.vals[s]],
                          !.corrected = FALSE], bts)
        p == predict(_onnx_model, Inbody_inputs(o))
    IN  IF o.state # "ok" THEN [obj |-> o, runs |-> 0, preds |-> {}]
        ELSE IF p.exc # "" THEN [obj |-> [o EXCEPT !.state = p.exc],
                                 runs |-> p.runs, preds |-> {}]
        ELSE [obj |-> o, runs |-> p.runs, preds |-> p.out]

---------------------------------------------------------------------------
(* checkupy.CheckupBIA.__init__ *)

Slots == {"_fitness", "_standard", "_inbody"}

\* the attribute each statement of __init__ assigns
FitnessSlot  == "_fitness"
StandardSlotAliased == "_fitness"
StandardSlot == "_standard"
InbodySlot   == "_inbody"

\* self._fitness = Fitness(...)
ConstructFitness ==
    /\ pc = "start"
    /\ LET o == Fitness_init(args, betas)
       IN  IF o.state = "ok"
           THEN /\ attrs' = [attrs EXCEPT ![FitnessSlot] = o]
                /\ pc' = "fitness"
                /\ raised' = raised
           ELSE /\ attrs' = attrs
                /\ pc' = "raised"
                /\ raised' = o.state
    /\ UNCHANGED <<args, betas, runs, preds, measureVars, corrVars>>

\* self._standard = Standard(...)
ConstructStandard ==
    /\ pc = "fitness"
    /\ LET o == Standard_init(args, betas)
       IN  IF o.state = "ok"
           THEN /\ attrs' = [attrs EXCEPT ![StandardSlot] = o]
                /\ pc' = "standard"
                /\ raised' = raised
           ELSE /\ attrs' = attrs
                /\ pc' = "raised"
                /\ raised' = o.state
    /\ UNCHANGED <<args, betas, runs, preds, measureVars, corrVars>>

\* self._inbody = Inbody(...)
ConstructInbody ==
    /\ pc = "standard"
    /\ LET r == Inbody_init(args, betas)
       IN  /\ runs' = runs + r.runs
           /\ IF r.obj.state = "ok"
              THEN /\ attrs' = [attrs EXCEPT ![InbodySlot] = r.obj]
                   /\ preds' = r.preds
                   /\ pc' = "done"
                   /\ raised' = raised
              ELSE /\ attrs' = attrs
                   /\ preds' = preds
                   /\ pc' = "raised"
                   /\ raised' = r.obj.state
    /\ UNCHANGED <<args, betas, measureVars, corrVars>>

\* the properties of Inbody; each returns self._preds["<its own name>"]
InbodyProperties ==
    {"total_body_water", "total_body_extracellularwater",
     "total_body_fatfreemass", "total_body_bonemineralcontent",
     "total_body_skeletalmusclemass", "total_body_basalmetabolicrate",
     "total_body_minerals", "total_body_proteins",
     "left_arm_fatfreemass", "left_arm_fatmass",
     "right_arm_fatfreemass", "right_arm_fatmass",
     "left_leg_fatfreemass", "left_leg_fatmass",
     "right_leg_fatfreemass", "right_leg_fatmass",
     "total_trunk_fatfreemass", "total_trunk_fatmass",
     "total_body_phaseanglecorrected"}

\* self._onnx_model(data), i.e. OnnxModel.predict(data), with the labels of
\* Inbody; args is the data handed over
Predict ==
    /\ pc = "call"
    /\ LET r == predict(_onnx_model, args)
       IN  /\ runs' = runs + r.runs
           /\ preds' = r.out
           /\ raised' = r.exc
           /\ pc' = IF r.exc = "" THEN "returned" ELSE "raised"
    /\ UNCHANGED <<args, attrs, betas, measureVars, corrVars>>

\* an Inbody property is read on the mapping that predict returned for a
\* dict: self._preds[name]
ReadOutput(name) ==
    /\ pc \notin {"call", "raised"}
    /\ args.kind = "dict"
    /\ raised = ""
    /\ pc' = name
    /\ raised' = IF name \in preds THEN "" ELSE "KeyError"
    /\ UNCHANGED <<args, attrs, betas, runs, preds, measureVars, corrVars>>

\* the sixteen statements of a correction method run on a constructed
\* instance: the setters before the first statement that raises have run
Statements(o, bts, inverse) ==
    LET new == [s \in Segs |-> IF inverse THEN ilsq(o.vals[s], bts[s])
                                          ELSE lsq(o.vals[s], bts[s])]
        bad == {i \in 1..Len(SegOrder) : IsExc(new[SegOrder[i]])}
        first == CHOOSE i \in bad : \A j \in bad : i <= j
        done(s) == bad = {} \/ \E i \in 1..(first - 1) : SegOrder[i] = s
    IN  [obj |-> [o EXCEPT !.vals = [s \in Segs |->
                                       IF done(s) THEN new[s] ELSE o.vals[s]]],
         exc |-> IF bad = {} THEN "" ELSE new[SegOrder[first]].k]

\* o.apply_orthostatic_correction() and o.remove_orthostatic_correction()
\* on the instance of a slot; calls keeps, for each call, the flag and the
\* stored values before it and the stored values after it
CallCorrection(slot, inverse) ==
    /\ Len(calls) < MaxCalls
    /\ attrs[slot].state = "ok"
    /\ LET o == attrs[slot]
           r == IF is_corrected(o) = inverse THEN Statements(o, betas, inverse)
                ELSE [obj |-> o, exc |-> ""]
       IN  /\ attrs' = [attrs EXCEPT ![slot] = r.obj]
           /\ calls' = Append(calls, [slot |-> slot, inverse |-> inverse,
                                      flag |-> is_corrected(o),
                                      before |-> o.vals, after |-> r.obj.vals,
                                      exc |-> r.exc])
    /\ UNCHANGED <<args, pc, betas, raised, runs, preds, measureVars, v0, cur>>

---------------------------------------------------------------------------
(* pyakern.equations.BIAMeasure *)

Inputs == {"left_arm_r", "left_arm_x", "left_leg_r", "left_leg_x",
           "left_trunk_r", "left_trunk_x", "left_body_r", "left_body_x",
           "right_arm_r", "right_arm_x", "right_leg_r", "right_leg_x",
           "right_trunk_r", "right_trunk_x", "right_body_r", "right_body_x",
           "upper_body_r", "upper_body_x", "lower_body_r", "lower_body_x"}

\* order of the set_* calls in __init__
InitOrder == <<"left_arm_r", "left_arm_x", "left_leg_r", "left_leg_x",
               "left_trunk_r", "left_trunk_x", "left_body_r", "left_body_x",
               "right_arm_r", "right_arm_x", "right_leg_r", "right_leg_x",
               "right_trunk_r", "right_trunk_x", "right_body_r", "right_body_x",
               "upper_body_r", "upper_body_x", "lower_body_r", "lower_body_x">>

\* declared attributes _<segment>_<r|x>
Attributes == {"_" \o n : n \in Inputs}

\* a declared attribute that no statement has assigned
Unset == [k |-> "unset", v |-> 0, w |-> <<>>, ty |-> "unset"]

\* the attribute written by set_<name>
SetterTarget(name) ==
    IF name = "lower_body_x" THEN "_upper_body_x" ELSE "_" \o name

\* the attribute read by the property <name>
GetterSource(name) ==
    IF name = "lower_body_x" THEN "_upper_body_x" ELSE "_" \o name

\* BIAMeasure.__init__: set_age .. set_weight, then the set_* calls of
\* InitOrder; an attribute holds what the last setter writing it was given
BIAMeasure_init(a) ==
    [age |-> a.age, sex |-> a.sex, hcm |-> set_height(a.height),
     wgt |-> a.weight,
     f |-> [at \in Attributes |->
              LET idx == {i \in 1..Len(InitOrder) :
                            SetterTarget(InitOrder[i]) = at}
              IN  IF idx = {} THEN Unset
                  ELSE a.vals[InitOrder[CHOOSE i \in idx :
                                          \A j \in idx : j <= i]]]]

\* set_<name>(val)
BIAMeasure_set(m, name, val) == [m EXCEPT !.f[SetterTarget(name)] = val]

\* the property <name> of the twenty electrical accessors
BIAMeasure_read(m, name) == m.f[GetterSource(name)]

BIAMeasure_age(m)    == Num(m.age, "int")
BIAMeasure_weight(m) == Num(m.wgt, "float")
BIAMeasure_height(m) == Num(m.hcm, "int")

\* a tuple object handed to a function as one argument
TupleObject == [k |-> "tuple", v |-> 0, w |-> <<>>, ty |-> "tuple"]

Str == [k |-> "str", v |-> 0, w |-> <<>>, ty |-> "str"]

\* any(self._nones(*args)): [x is None for x in args]
AnyNone(xs) == \E i \in DOMAIN xs : IsNone(xs[i])

\* the value of a property: <<x>>, a pair <<x, y>>, or <<exception>>
One(x) == <<x>>
Two(x, y) == IF IsExc(x) THEN <<x>> ELSE IF IsExc(y) THEN <<y>> ELSE <<x, y>>
Raises(r) == IsExc(r[1])

\* math.log(x, e): a stored value that is not positive is outside the domain
ln(x) ==
    IF IsExc(x) THEN x
    ELSE IF IsNone(x) THEN Exc("TypeError")
    ELSE IF x.k = "num" /\ x.w = <<>> /\ x.v <= 0 THEN Exc("ValueError")
    ELSE Arith(<<x>>)

_phase_angle_deg(res, rea) ==
    IF AnyNone(<<res, rea>>) THEN One(None)
    ELSE One(Arith(<<Div(rea, res)>>))

BIAMeasure_bmi(m) ==
    IF m.hcm = 0 THEN Exc("ZeroDivisionError")
    ELSE Arith(<<BIAMeasure_weight(m), BIAMeasure_height(m)>>)

_correct_for_obese(m, ffm) == Arith(<<BIAMeasure_bmi(m), ffm>>)

tbw_std(m) ==
    LET r == BIAMeasure_read(m, "right_body_r")
        lt == Arith(<<Div(BIAMeasure_height(m), r), BIAMeasure_weight(m)>>)
    IN  IF AnyNone(<<r>>) THEN Two(None, None)
        ELSE Two(lt, Div(lt, BIAMeasure_weight(m)))

tbw_atl(m) ==
    LET r == BIAMeasure_read(m, "right_body_r")
        lt == Arith(<<Div(BIAMeasure_height(m), r), BIAMeasure_weight(m), Flag>>)
    IN  IF AnyNone(<<r>>) THEN Two(None, None)
        ELSE Two(lt, Div(lt, BIAMeasure_weight(m)))

\* rl = (lt / tbw) if tbw is not None else None
FractionOf(lt, tbw) ==
    IF Raises(tbw) THEN tbw[1]
    ELSE IF IsNone(tbw[1]) THEN None
    ELSE Div(lt, tbw[1])

ecw_std(m) ==
    LET r == BIAMeasure_read(m, "right_body_r")
        x == BIAMeasure_read(m, "right_body_x")
        lt == Arith(<<Div(BIAMeasure_height(m), r),
                      Div(BIAMeasure_height(m), x), Flag,
                      BIAMeasure_weight(m)>>)
    IN  IF AnyNone(<<r, x>>) THEN Two(None, None)
        ELSE Two(lt, FractionOf(lt, tbw_std(m)))

ecw_atl(m) ==
    LET r == BIAMeasure_read(m, "right_body_r")
        x == BIAMeasure_read(m, "right_body_x")
        lt == Arith(<<Div(BIAMeasure_height(m), r), BIAMeasure_weight(m),
                      Div(BIAMeasure_height(m), x), Flag>>)
    IN  Two(lt, FractionOf(lt, tbw_atl(m)))

\* icw_std / icw_atl from the tbw and ecw pairs
IcwOf(tbw, ecw) ==
    IF Raises(tbw) THEN tbw
    ELSE IF Raises(ecw) THEN ecw
    ELSE Two(IF AnyNone(<<tbw[1], ecw[1]>>) THEN None
             ELSE Arith(<<tbw[1], ecw[1]>>),
             IF AnyNone(<<tbw[2], ecw[2]>>) THEN None
             ELSE Arith(<<tbw[1], ecw[1]>>))

icw_std(m) == IcwOf(tbw_std(m), ecw_std(m))

icw_atl(m) == IcwOf(tbw_atl(m), ecw_atl(m))

ffm_std(m) ==
    LET r == BIAMeasure_read(m, "right_body_r")
        x == BIAMeasure_read(m, "right_body_x")
        ffm == _correct_for_obese(m,
                  Arith(<<Div(r, BIAMeasure_height(m)), BIAMeasure_weight(m),
                          Div(x, BIAMeasure_height(m)), Flag,
                          BIAMeasure_height(m)>>))
    IN  IF AnyNone(<<r, x>>) THEN Two(None, None)
        ELSE Two(ffm, Div(ffm, BIAMeasure_weight(m)))

ffm_atl(m) ==
    LET r == BIAMeasure_read(m, "right_body_r")
        ffm == _correct_for_obese(m,
                  Arith(<<Div(BIAMeasure_height(m), r), BIAMeasure_weight(m),
                          Flag>>))
    IN  IF AnyNone(<<r>>) THEN Two(None, None)
        ELSE Two(ffm, Div(ffm, BIAMeasure_weight(m)))

\* fm_std / fm_atl: the guard any(self._nones(self.ffm_*)) is handed the
\* pair as one argument
FmOf(m, ffm) ==
    IF Raises(ffm) THEN ffm
    ELSE IF AnyNone(<<TupleObject>>) THEN Two(None, None)
    ELSE Two(Arith(<<BIAMeasure_weight(m), ffm[1]>>), Arith(<<ffm[2]>>))

fm_std(m) == FmOf(m, ffm_std(m))

fm_atl(m) == FmOf(m, ffm_atl(m))

smm_std(m) ==
    LET r == BIAMeasure_read(m, "right_body_r")
        smm == Arith(<<Div(BIAMeasure_height(m), r), BIAMeasure_age(m), Flag>>)
    IN  IF AnyNone(<<r>>) THEN Two(None, None)
        ELSE Two(smm, Div(smm, BIAMeasure_weight(m)))

smm_atl(m) == smm_std(m)

BIAMeasure_trunk_appendicular_index(m) ==
    LET rs == <<BIAMeasure_read(m, "left_trunk_r"),
                BIAMeasure_read(m, "right_trunk_r"),
                BIAMeasure_read(m, "left_arm_r"),
                BIAMeasure_read(m, "left_leg_r"),
                BIAMeasure_read(m, "right_arm_r"),
                BIAMeasure_read(m, "right_leg_r")>>
    IN  IF AnyNone(rs) THEN None ELSE Arith(rs)

\* BIAMeasure._trunk_appendicular_index with its magnitude
BIAMeasure_trunk_appendicular_index_value(m) ==
    LET rs  == <<BIAMeasure_read(m, "left_trunk_r"),
                 BIAMeasure_read(m, "right_trunk_r"),
                 BIAMeasure_read(m, "left_arm_r"),
                 BIAMeasure_read(m, "left_leg_r"),
                 BIAMeasure_read(m, "right_arm_r"),
                 BIAMeasure_read(m, "right_leg_r")>>
        den == Milli(rs[3]) + Milli(rs[4]) + Milli(rs[5]) + Milli(rs[6])
    IN  IF AnyNone(rs) THEN None
        ELSE IF den = 0 THEN Exc("ZeroDivisionError")
        ELSE Ratio(Quotient(2 * (Milli(rs[1]) + Milli(rs[2])), den))

\* smm_left_arm, smm_right_arm, smm_left_leg, smm_right_leg
smm_limb(m, limb) ==
    LET r == BIAMeasure_read(m, limb \o "_r")
        tai == BIAMeasure_trunk_appendicular_index(m)
        smm == Arith(<<Div(BIAMeasure_height(m), r), tai, Flag>>)
    IN  IF AnyNone(<<r, tai>>) THEN Two(None, None)
        ELSE Two(smm, Div(smm, BIAMeasure_weight(m)))

bmr_std(m) ==
    LET ffm == ffm_std(m)
        fm == fm_std(m)
    IN  IF Raises(ffm) THEN ffm
        ELSE IF AnyNone(<<ffm[1]>>) THEN One(None)
        ELSE IF Raises(fm) THEN fm
        ELSE One(Arith(<<BIAMeasure_bmi(m), ffm[1], fm[1],
                         BIAMeasure_age(m), Flag>>))

bmr_atl(m) ==
    LET ffm == ffm_atl(m)
    IN  IF Raises(ffm) THEN ffm
        ELSE IF AnyNone(<<ffm[1]>>) THEN One(None)
        ELSE One(Arith(<<ffm[1]>>))

lst_std(m) ==
    LET lb == BIAMeasure_read(m, "left_body_r")
        rb == BIAMeasure_read(m, "right_body_r")
        rt == BIAMeasure_read(m, "right_trunk_r")
        tai == BIAMeasure_trunk_appendicular_index(m)
        lst == Arith(<<Div(BIAMeasure_height(m), lb), tai, Flag,
                       Div(BIAMeasure_height(m), rb),
                       Div(BIAMeasure_height(m), rt)>>)
    IN  IF AnyNone(<<lb, rb, rt, tai>>) THEN Two(None, None)
        ELSE Two(lst, Div(lst, BIAMeasure_weight(m)))

lst_atl(m) ==
    LET r == BIAMeasure_read(m, "right_body_r")
        x == BIAMeasure_read(m, "right_body_x")
        lst == Arith(<<BIAMeasure_weight(m), Div(BIAMeasure_height(m), r), x,
                       BIAMeasure_age(m)>>)
    IN  IF AnyNone(<<r, x>>) THEN Two(None, None)
        ELSE Two(lst, Div(lst, BIAMeasure_weight(m)))

bmc(m) ==
    LET r == BIAMeasure_read(m, "right_body_r")
        kg == Arith(<<ln(r), ln(BIAMeasure_height(m)), Flag>>)
    IN  IF AnyNone(<<r>>) THEN One(None)
        ELSE Two(kg, Div(kg, BIAMeasure_weight(m)))

\* (BIAMeasure magnitudes.  Masses in kg, volumes in litres and fractions
\* are evaluated in units of 10^-3; every product and quotient is truncated
\* to the unit.)

\* a float result, v in units of 10^-3
Float(n) == [k |-> "milli", v |-> n, w |-> <<>>, ty |-> "float"]

\* num / den in units of 10^-3 for den # 0
Per(num, den) == Sgn(num) * Sgn(den) * LongDiv(Abs(num), Abs(den), 3)

\* a * b for a and b in units of 10^-5, 0 <= b < 10^5
Mul5(a, b) == (a * (b \div 1000)) \div 100 + (a * (b % 1000)) \div 100000

\* log(n / d) in units of 10^-5 for n > 0 and d > 0:
\* log(2^k * y) = k * log(2) + 2 * atanh((y - 1) / (y + 1)) for 1 <= y < 2
RECURSIVE Ln(_, _)
Ln(n, d) ==
    IF n >= 2 * d THEN 69315 + Ln(n, 2 * d)
    ELSE IF n < d THEN Ln(2 * n, d) - 69315
    ELSE LET z   == LongDiv(n - d, n + d, 5)
             z2  == Mul5(z, z)
             z3  == Mul5(z2, z)
             z5  == Mul5(z3, z2)
             z7  == Mul5(z5, z2)
             z9  == Mul5(z7, z2)
         IN  2 * (z + z3 \div 3 + z5 \div 5 + z7 \div 7 + z9 \div 9)

\* exp(y) in units of 10^-5 for y in units of 10^-5:
\* exp(k * log(2) + f) = 2^k * exp(f) for 0 <= f < log(2)
Exp(y) ==
    LET k  == y \div 69315
        f  == y - k * 69315
        t2 == Mul5(f, f) \div 2
        t3 == Mul5(t2, f) \div 3
        t4 == Mul5(t3, f) \div 4
        t5 == Mul5(t4, f) \div 5
        t6 == Mul5(t5, f) \div 6
        t7 == Mul5(t6, f) \div 7
        t8 == Mul5(t7, f) \div 8
        e  == 100000 + f + t2 + t3 + t4 + t5 + t6 + t7 + t8
    IN  IF k >= 0 THEN e * 2^k ELSE e \div 2^(-k)

\* self.height**2 / x for a stored x # 0
HeightSquaredOver(m, x) ==
    Sgn(Milli(x)) * LongDiv(m.hcm * m.hcm * 1000, Abs(Milli(x)), 3)

\* x / (self.height / 100) for a stored x
OverHeight(m, x) == (Milli(x) * 100) \div m.hcm

\* self.is_male() as the operand of * and of ~: True is 1, ~True is -2
IsMale(m) == IF m.sex = "M" THEN 1 ELSE 0
Invert(b) == -b - 1

\* a stored divisor that is zero
ZeroIn(xs) == \E i \in DOMAIN xs : ~IsNone(xs[i]) /\ Milli(xs[i]) = 0

BIAMeasure_bmi_value(m) ==
    IF m.hcm = 0 THEN Exc("ZeroDivisionError")
    ELSE Float(LongDiv(m.wgt * 10000, m.hcm * m.hcm, 3))

_correct_for_obese_value(m, ffm) ==
    LET b == BIAMeasure_bmi_value(m).v
    IN  IF b >= 30000 THEN ffm - MulDec(b - 30000, Dec(1, 0, 256000000))
        ELSE ffm

\* the pair (x, x / self.weight)
WithShare(m, x) == Two(Float(x), Float(Per(x, m.wgt * 1000)))

tbw_std_value(m) ==
    LET r  == BIAMeasure_read(m, "right_body_r")
        w  == m.wgt * 1000
        lt == IF IsMale(m) = 1
              THEN 1200 + MulDec(HeightSquaredOver(m, r), Dec(1, 0, 450000000))
                   + MulDec(w, Dec(1, 0, 180000000))
              ELSE 3750 + MulDec(HeightSquaredOver(m, r), Dec(1, 0, 450000000))
                   + MulDec(w, Dec(1, 0, 110000000))
    IN  IF AnyNone(<<r>>) THEN Two(None, None)
        ELSE IF ZeroIn(<<r>>) THEN One(Exc("ZeroDivisionError"))
        ELSE WithShare(m, lt)

tbw_atl_value(m) ==
    LET r  == BIAMeasure_read(m, "right_body_r")
        lt == 286 + MulDec(HeightSquaredOver(m, r), Dec(1, 0, 195000000))
              + MulDec(m.wgt * 1000, Dec(1, 0, 385000000))
              + 5086 * IsMale(m)
    IN  IF AnyNone(<<r>>) THEN Two(None, None)
        ELSE IF ZeroIn(<<r>>) THEN One(Exc("ZeroDivisionError"))
        ELSE WithShare(m, lt)

\* rl = (lt / tbw) if tbw is not None else None
FractionOf_value(lt, tbw) ==
    IF Raises(tbw) THEN tbw
    ELSE IF IsNone(tbw[1]) THEN Two(Float(lt), None)
    ELSE IF tbw[1].v = 0 THEN One(Exc("ZeroDivisionError"))
    ELSE Two(Float(lt), Float(Per(lt, tbw[1].v)))

ecw_std_value(m) ==
    LET r  == BIAMeasure_read(m, "right_body_r")
        x  == BIAMeasure_read(m, "right_body_x")
        lt == -5220 + MulDec(HeightSquaredOver(m, r), Dec(1, 0, 200000000))
              + MulDec(HeightSquaredOver(m, x), Dec(1, 0, 5000000))
              + 1860 * Invert(IsMale(m))
              + MulDec(m.wgt * 1000, Dec(1, 0, 80000000))
              + 1900
    IN  IF AnyNone(<<r, x>>) THEN Two(None, None)
        ELSE IF ZeroIn(<<r, x>>) THEN One(Exc("ZeroDivisionError"))
        ELSE FractionOf_value(lt, tbw_std_value(m))

ecw_atl_value(m) ==
    LET r  == BIAMeasure_read(m, "right_body_r")
        x  == BIAMeasure_read(m, "right_body_x")
        lt == 1579 + MulDec(HeightSquaredOver(m, r), Dec(1, 0, 55000000))
              + MulDec(m.wgt * 1000, Dec(1, 0, 127000000))
              + MulDec(HeightSquaredOver(m, x), Dec(1, 0, 6000000))
              + 932 * IsMale(m)
    IN  IF AnyNone(<<r, x>>) THEN One(Exc("TypeError"))
        ELSE IF ZeroIn(<<r, x>>) THEN One(Exc("ZeroDivisionError"))
        ELSE FractionOf_value(lt, tbw_atl_value(m))

\* icw_std / icw_atl from the tbw and ecw pairs: both elements are
\* float(tbw_lt - ecw_lt)
IcwOf_value(tbw, ecw) ==
    IF Raises(tbw) THEN tbw
    ELSE IF Raises(ecw) THEN ecw
    ELSE Two(IF AnyNone(<<tbw[1], ecw[1]>>) THEN None
             ELSE Float(tbw[1].v - ecw[1].v),
             IF AnyNone(<<tbw[2], ecw[2]>>) THEN None
             ELSE IF AnyNone(<<tbw[1], ecw[1]>>) THEN Exc("TypeError")
             ELSE Float(tbw[1].v - ecw[1].v))

icw_std_value(m) == IcwOf_value(tbw_std_value(m), ecw_std_value(m))

icw_atl_value(m) == IcwOf_value(tbw_atl_value(m), ecw_atl_value(m))

ffm_std_value(m) ==
    LET r   == BIAMeasure_read(m, "right_body_r")
        x   == BIAMeasure_read(m, "right_body_x")
        ffm == 12299 - MulDec(OverHeight(m, r), Dec(1, 0, 116000000))
               + MulDec(m.wgt * 1000, Dec(1, 0, 164000000))
               + MulDec(OverHeight(m, x), Dec(1, 0, 365000000))
               + 7827 * IsMale(m)
               + MulDec(m.hcm * 1000, Dec(1, 0, 215700000))
    IN  IF AnyNone(<<r, x>>) THEN Two(None, None)
        ELSE IF m.hcm = 0 THEN One(Exc("ZeroDivisionError"))
        ELSE WithShare(m, _correct_for_obese_value(m, ffm))

ffm_atl_value(m) ==
    LET r   == BIAMeasure_read(m, "right_body_r")
        ffm == -2261 + MulDec(HeightSquaredOver(m, r), Dec(1, 0, 327000000))
               + MulDec(m.wgt * 1000, Dec(1, 0, 525000000))
               + 5462 * IsMale(m)
    IN  IF AnyNone(<<r>>) THEN Two(None, None)
        ELSE IF ZeroIn(<<r>>) \/ m.hcm = 0 THEN One(Exc("ZeroDivisionError"))
        ELSE WithShare(m, _correct_for_obese_value(m, ffm))

\* fm_std / fm_atl: the guard is handed the pair as one argument, then
\* float(self.weight - ffm_kg), float(1 - ffm_rl)
FmOf_value(m, ffm) ==
    IF Raises(ffm) THEN ffm
    ELSE IF AnyNone(<<TupleObject>>) THEN Two(None, None)
    ELSE IF AnyNone(<<ffm[1]>>) THEN One(Exc("TypeError"))
    ELSE Two(Float(m.wgt * 1000 - ffm[1].v), Float(1000 - ffm[2].v))

fm_std_value(m) == FmOf_value(m, ffm_std_value(m))

fm_atl_value(m) == FmOf_value(m, ffm_atl_value(m))

lst_std_value(m) ==
    LET lb  == BIAMeasure_read(m, "left_body_r")
        rb  == BIAMeasure_read(m, "right_body_r")
        rt  == BIAMeasure_read(m, "right_trunk_r")
        tai == BIAMeasure_trunk_appendicular_index_value(m)
        left_body  == 9016
                      + MulDec(HeightSquaredOver(m, lb), Dec(1, 0, 399000000))
                      - MulDec(tai.v, Dec(1, 91, 962000000)) \div 1000
                      + 1229 * IsMale(m)
        right_body == 461
                      + MulDec(HeightSquaredOver(m, rb), Dec(1, 0, 273000000))
                      + MulDec(HeightSquaredOver(m, rt), Dec(1, 0, 6000000))
    IN  IF IsExc(tai) THEN One(tai)
        ELSE IF AnyNone(<<lb, rb, rt, tai>>) THEN Two(None, None)
        ELSE IF ZeroIn(<<lb, rb, rt>>) THEN One(Exc("ZeroDivisionError"))
        ELSE WithShare(m, left_body + right_body)

lst_atl_value(m) ==
    LET r   == BIAMeasure_read(m, "right_body_r")
        x   == BIAMeasure_read(m, "right_body_x")
        lst == -8929 + MulDec(m.wgt * 1000, Dec(1, 0, 635000000))
               + LongDiv(DivDec((m.hcm * m.hcm) \div 10, Dec(1, 0, 227000000))
                           * 1000,
                         Abs(Milli(r)), 0) * Sgn(Milli(r))
               + MulDec(Milli(x), Dec(1, 0, 93000000))
               + MulDec(m.age * 1000, Dec(1, 0, 48000000))
    IN  IF AnyNone(<<r, x>>) THEN Two(None, None)
        ELSE IF ZeroIn(<<r>>) THEN One(Exc("ZeroDivisionError"))
        ELSE WithShare(m, lst)

bmc_value(m) ==
    LET r  == BIAMeasure_read(m, "right_body_r")
        y  == - MulDec(Ln(Milli(r), 1000), Dec(1, 0, 471270000))
              + MulDec(Ln(m.hcm, 1), Dec(1, 2, 651760000))
              - 962779
        kg == MulDec(Exp(y), Dec(1, 0, 893280000)) \div 100
              - MulDec(1000 * Invert(IsMale(m)), Dec(1, 0, 129780000))
              + 359
    IN  IF AnyNone(<<r>>) THEN One(None)
        ELSE IF Milli(r) <= 0 \/ m.hcm <= 0 THEN One(Exc("ValueError"))
        ELSE WithShare(m, kg)

\* checkupy.Standard.total_body_extracellularwater with its magnitude;
\* (not self.is_male()) is 1 for a female and 0 for a male
Standard_total_body_extracellularwater(o) ==
    LET r  == segment(o, "right_body_resistance")
        x  == segment(o, "right_body_reactance")
        lt == -3320 + MulDec(HeightSquaredOver(o, r), Dec(1, 0, 200000000))
              + MulDec(HeightSquaredOver(o, x), Dec(1, 0, 5000000))
              + 1860 * (1 - IsMale(o))
              + MulDec(o.wgt * 1000, Dec(1, 0, 80000000))
    IN  IF AnyNone(<<r, x>>) THEN Exc("TypeError")
        ELSE IF ZeroIn(<<r, x>>) THEN Exc("ZeroDivisionError")
        ELSE Float(lt)

\* checkupy.Standard.total_body_bonemineralcontent with its magnitude
Standard_total_body_bonemineralcontent(o) ==
    LET r  == segment(o, "right_body_resistance")
        y  == - MulDec(Ln(Milli(r), 1000), Dec(1, 0, 471270000))
              + MulDec(Ln(o.hcm, 1), Dec(1, 2, 651760000))
              - 962779
        kg == 359 + MulDec(Exp(y), Dec(1, 0, 893280000)) \div 100
              - MulDec(1000 * (1 - IsMale(o)), Dec(1, 0, 129780000))
    IN  IF AnyNone(<<r>>) THEN Exc("TypeError")
        ELSE IF Milli(r) <= 0 \/ o.hcm <= 0 THEN Exc("ValueError")
        ELSE Float(kg)

PhaseAngles == {"left_arm", "left_leg", "left_trunk", "left_body",
                "right_arm", "right_leg", "right_trunk", "right_body",
                "upper_body", "lower_body"}

\* names of dir(self) that to_dict keeps, in dir() order
DirOrder ==
    <<"age", "bmc", "bmi", "bmr_atl", "bmr_std", "ecw_atl", "ecw_std",
      "ffm_atl", "ffm_std", "fm_atl", "fm_std", "height", "icw_atl",
      "icw_std",
      "left_arm_phase_angle_deg", "left_arm_r", "left_arm_x",
      "left_body_phase_angle_deg", "left_body_r", "left_body_x",
      "left_leg_phase_angle_deg", "left_leg_r", "left_leg_x",
      "left_trunk_phase_angle_deg", "left_trunk_r", "left_trunk_x",
      "lower_body_phase_angle_deg", "lower_body_r", "lower_body_x",
      "lst_atl", "lst_std",
      "right_arm_phase_angle_deg", "right_arm_r", "right_arm_x",
      "right_body_phase_angle_deg", "right_body_r", "right_body_x",
      "right_leg_phase_angle_deg", "right_leg_r", "right_leg_x",
      "right_trunk_phase_angle_deg", "right_trunk_r", "right_trunk_x",
      "sex", "smm_atl", "smm_left_arm", "smm_left_leg", "smm_right_arm",
      "smm_right_leg", "smm_std", "tbw_atl", "tbw_std",
      "upper_body_phase_angle_deg", "upper_body_r", "upper_body_x",
      "weight">>

\* getattr(self, name) for a property of BIAMeasure
BIAMeasure_get(m, name) ==
    CASE name \in Inputs -> One(BIAMeasure_read(m, name))
      [] name \in {p \o "_phase_angle_deg" : p \in PhaseAngles} ->
            LET seg == CHOOSE p \in PhaseAngles : name = p \o "_phase_angle_deg"
            IN  _phase_angle_deg(BIAMeasure_read(m, seg \o "_r"),
                                 BIAMeasure_read(m, seg \o "_x"))
      [] name = "age"     -> One(BIAMeasure_age(m))
      [] name = "weight"  -> One(BIAMeasure_weight(m))
      [] name = "height"  -> One(BIAMeasure_height(m))
      [] name = "sex"     -> One(Str)
      [] name = "bmi"     -> One(BIAMeasure_bmi(m))
      [] name = "tbw_std" -> tbw_std(m)
      [] name = "tbw_atl" -> tbw_atl(m)
      [] name = "ecw_std" -> ecw_std(m)
      [] name = "ecw_atl" -> ecw_atl(m)
      [] name = "icw_std" -> icw_std(m)
      [] name = "icw_atl" -> icw_atl(m)
      [] name = "ffm_std" -> ffm_std(m)
      [] name = "ffm_atl" -> ffm_atl(m)
      [] name = "fm_std"  -> fm_std(m)
      [] name = "fm_atl"  -> fm_atl(m)
      [] name = "smm_std" -> smm_std(m)
      [] name = "smm_atl" -> smm_atl(m)
      [] name = "_trunk_appendicular_index" ->
            One(BIAMeasure_trunk_appendicular_index(m))
      [] name = "smm_left_arm"  -> smm_limb(m, "left_arm")
      [] name = "smm_right_arm" -> smm_limb(m, "right_arm")
      [] name = "smm_left_leg"  -> smm_limb(m, "left_leg")
      [] name = "smm_right_leg" -> smm_limb(m, "right_leg")
      [] name = "bmr_std" -> bmr_std(m)
      [] name = "bmr_atl" -> bmr_atl(m)
      [] name = "lst_std" -> lst_std(m)
      [] name = "lst_atl" -> lst_atl(m)
      [] name = "bmc"     -> bmc(m)

\* to_dict(): exc is the exception of the first property that raises
BIAMeasure_to_dict(m) ==
    LET bad == {i \in DOMAIN DirOrder : Raises(BIAMeasure_get(m, DirOrder[i]))}
        first == CHOOSE i \in bad : \A j \in bad : i <= j
    IN  IF bad # {}
        THEN [exc |-> BIAMeasure_get(m, DirOrder[first])[1].k, keys |-> {}]
        ELSE [exc |-> "", keys |-> Range(DirOrder)]

\* a call set_<name>(val) on the instance
SetField(name, val) ==
    /\ nsets < MaxSets
    /\ bia' = BIAMeasure_set(bia, name, val)
    /\ given' = [given EXCEPT ![name] = val]
    /\ nsets' = nsets + 1
    /\ UNCHANGED <<checkupVars, corrVars>>

---------------------------------------------------------------------------
(* pyakern.src.corrections *)

Row(side, region, param, b0, b1) ==
    [SIDE |-> side, REGION |-> region, PARAMETER |-> param,
     B0 |-> b0, B1 |-> b1]

CORRECTION_COEFFICIENTS ==
    {Row("LEFT", "ARM", "R", Dec(-1, 26, 524694830), Dec(1, 0, 890449104)),
     Row("LEFT", "ARM", "X", Dec(1, 2, 285094205), Dec(1, 0, 641054712)),
     Row("LEFT", "BODY", "R", Dec(-1, 16, 678610460), Dec(1, 0, 945093853)),
     Row("LEFT", "BODY", "X", Dec(-1, 3, 475811300), Dec(1, 0, 948008502)),
     Row("LEFT", "LEG", "R", Dec(1, 32, 270675010), Dec(1, 0, 927296855)),
     Row("LEFT", "LEG", "X", Dec(1, 0, 896648920), Dec(1, 0, 991384925)),
     Row("LEFT", "TRUNK", "R", Dec(-1, 3, 466485256), Dec(1, 1, 183161960)),
     Row("LEFT", "TRUNK", "X", Dec(1, 7, 447396800), Dec(1, 0, 73604247)),
     Row("LOWER", "BODY", "R", Dec(1, 52, 569775520), Dec(1, 0, 948773993)),
     Row("LOWER", "BODY", "X", Dec(-1, 0, 823281553), Dec(1, 1, 6330720)),
     Row("RIGHT", "ARM", "R", Dec(-1, 23, 343960350), Dec(1, 0, 872451337)),
     Row("RIGHT", "ARM", "X", Dec(1, 2, 614929578), Dec(1, 0, 653447308)),
     Row("RIGHT", "BODY", "R", Dec(-1, 0, 74877704), Dec(1, 0, 911190840)),
     Row("RIGHT", "BODY", "X", Dec(-1, 0, 514277526), Dec(1, 0, 907606249)),
     Row("RIGHT", "LEG", "R", Dec(1, 25, 182886720), Dec(1, 0, 941388917)),
     Row("RIGHT", "LEG", "X", Dec(-1, 1, 155987874), Dec(1, 1, 66059805)),
     Row("RIGHT", "TRUNK", "R", Dec(-1, 3, 218942633), Dec(1, 1, 164758399)),
     Row("RIGHT", "TRUNK", "X", Dec(1, 7, 762037730), Dec(1, 0, 73428646)),
     Row("UPPER", "BODY", "R", Dec(-1, 63, 789912220), Dec(1, 0, 901742825)),
     Row("UPPER", "BODY", "X", Dec(1, 9, 520406271), Dec(1, 0, 612947206))}

\* the (SIDE, REGION, PARAMETER) triples of the table
Keys == {<<r.SIDE, r.REGION, r.PARAMETER>> : r \in CORRECTION_COEFFICIENTS}

\* out * b1 + b0 on floats
Adjusted(out, b0, b1) ==
    IF out.k = "num" THEN [out EXCEPT !.w = Push(out.w, b0, b1, 1)]
    ELSE IF out.k = "inf" /\ IsZero(b1) THEN NaN
    ELSE out

UnadjustedAsAdjust(out, b0, b1) == Adjusted(out, b0, b1)

\* (out - b0) / b1 on numpy floats: a zero slope gives inf, or nan for 0/0
Unadjusted(out, b0, b1) ==
    IF out.k # "num" THEN out
    ELSE IF IsZero(b1)
         THEN IF \/ (out.w # <<>> /\ out.w[Len(out.w)] = <<b0, b1, 1>>)
                 \/ (out.w = <<>> /\ b0[3] = 0 /\ out.v = b0[1] * b0[2])
              THEN NaN ELSE Inf
    ELSE [out EXCEPT !.w = Push(out.w, b0, b1, -1)]

_apply(val, side, region, param, adjust, unadjust, coefs) ==
    LET idx == {r \in coefs : r.SIDE = side /\ r.REGION = region
                              /\ r.PARAMETER = param}
        row == CHOOSE r \in idx : TRUE
        out0 == [val EXCEPT !.ty = "float"]
        out1 == IF adjust THEN Adjusted(out0, row.B0, row.B1) ELSE out0
        out2 == IF unadjust THEN Unadjusted(out1, row.B0, row.B1) ELSE out1
    IN  IF Cardinality(idx) # 1 THEN Exc("ValueError")
        ELSE IF IsExc(val) THEN val
        ELSE IF IsNone(val) THEN Exc("TypeError")
        ELSE out2

\* one of the <side>_<region>_<r|x>_ohm(value, adjust, unadjust) functions,
\* applied to the result of the previous call
Apply(key, adjust, unadjust) ==
    /\ Len(calls) < MaxApply
    /\ ~IsExc(cur)
    /\ cur' = _apply(cur, key[1], key[2], key[3], adjust, unadjust,
                     CORRECTION_COEFFICIENTS)
    /\ calls' = Append(calls, [key |-> key, adjust |-> adjust,
                               unadjust |-> unadjust, inp |-> cur,
                               out |-> cur'])
    /\ UNCHANGED <<v0, checkupVars, measureVars>>

\* a caller's table for the coefs parameter of _apply: the default table
\* with the slope B1 of one row set to 0.0
ZeroSlopeTable(key) ==
    {IF <<r.SIDE, r.REGION, r.PARAMETER>> = key
     THEN Row(r.SIDE, r.REGION, r.PARAMETER, r.B0, Dec(1, 0, 0))
     ELSE r : r \in CORRECTION_COEFFICIENTS}

\* _apply(value, side, region, param, adjust, unadjust, coefs=table) with a
\* table handed over by the caller, applied to the result of the previous
\* call
ApplyCustom(key, adjust, unadjust, zeroed) ==
    /\ Len(calls) < MaxApply
    /\ ~IsExc(cur)
    /\ cur' = _apply(cur, key[1], key[2], key[3], adjust, unadjust,
                     ZeroSlopeTable(zeroed))
    /\ calls' = Append(calls, [key |-> key, adjust |-> adjust,
                               unadjust |-> unadjust, zeroed |-> zeroed,
                               inp |-> cur, out |-> cur'])
    /\ UNCHANGED <<v0, checkupVars, measureVars>>

---------------------------------------------------------------------------
(* checkupy.BIAInput.to_dict on a Fitness or Standard instance *)

\* a bound method object
BoundMethod == [k |-> "method", v |-> 0, w |-> <<>>, ty |-> "method"]

Sides == {"left", "right"}
Parts == {"arm", "leg", "trunk", "body"}

\* an entry of dir(self): the name, the text before its first underscore
\* (i.split("_")[0]) and what getattr(self, name) evaluates
Entry(first, name, what, of, by) ==
    [first |-> first, name |-> name, what |-> what, of |-> of, by |-> by]

\* an output with its <name>perc = <name> / <by> * 100
WithPerc(first, name, by) ==
    {Entry(first, name, "output", name, ""),
     Entry(first, name \o "perc", "ratio", name, by)}

\* an output with its <name>index = <name> / (height / 100) ** 2
WithIndex(name) ==
    {Entry("total", name \o "index", "ratio", name, "height")}

\* 100 - <of>perc
Complement(name, of, by) == {Entry("total", name, "complement", of, by)}

Dir ==
    {Entry("", "_" \o n, "attribute", n, "") :
        n \in Segs \cup {"age", "sex", "hgt", "wgt", "corrected",
                         "phaseangle_deg", "trunk_appendicular_index",
                         "_init__", "_class__", "_dict__"}}
    \cup {Entry("set", "set_" \o n, "method", n, "") :
            n \in Segs \cup {"age", "sex", "height", "weight"}}
    \cup {Entry("to", "to_dict", "method", "", ""),
          Entry("is", "is_male", "method", "", ""),
          Entry("is", "is_corrected", "method", "", ""),
          Entry("is", "is_valid", "method", "", ""),
          Entry("copy", "copy", "method", "", ""),
          Entry("apply", "apply_orthostatic_correction", "method", "", ""),
          Entry("remove", "remove_orthostatic_correction", "method", "", ""),
          Entry("sex", "sex", "sex", "", ""),
          Entry("age", "age", "age", "", ""),
          Entry("weight", "weight", "weight", "", ""),
          Entry("height", "height", "height", "", ""),
          Entry("bmi", "bmi", "bmi", "", ""),
          Entry("target", "target_weight", "bmi", "", "")}
    \cup {Entry(sd, sd \o "_" \o pt \o "_" \o q, "segment",
                sd \o "_" \o pt \o "_" \o q, "") :
            sd \in Sides, pt \in Parts, q \in {"resistance", "reactance"}}
    \cup {Entry(sd, sd \o "_" \o pt \o "_" \o q, q, sd \o "_" \o pt, "") :
            sd \in Sides, pt \in Parts, q \in {"impedance", "phaseangle"}}
    \cup {Entry("total", "total_" \o pt \o "_" \o q, "total_" \o q, pt, "") :
            pt \in Parts,
            q \in {"resistance", "reactance", "impedance", "phaseangle"}}
    \cup UNION {WithPerc(sd, sd \o "_" \o lb \o "_" \o q, "weight") :
                  sd \in Sides, lb \in {"arm", "leg"},
                  q \in {"fatfreemass", "fatmass"}}
    \cup UNION {WithPerc("total", "total_trunk_" \o q, "weight") :
                  q \in {"fatfreemass", "fatmass"}}
    \cup UNION {WithPerc("total", "total_body_" \o q, "weight") :
                  q \in {"water", "fatfreemass", "bonemineralcontent",
                         "softleanmass", "skeletalmusclemass"}}
    \cup WithPerc("total", "total_body_extracellularwater", "total_body_water")
    \cup UNION {WithIndex("total_body_" \o q) :
                  q \in {"fatfreemass", "fatmass", "skeletalmusclemass"}}
    \cup {Entry("total", "total_body_intracellularwater", "output",
                "total_body_intracellularwater", ""),
          Entry("total", "total_body_fatmass", "output",
                "total_body_fatmass", ""),
          Entry("total", "total_body_basalmetabolicrate", "output",
                "total_body_basalmetabolicrate", ""),
          Entry("total", "total_body_othertissuesmass", "difference",
                "total_body_softleanmass", "total_body_skeletalmusclemass"),
          Entry("total", "total_body_othertissuesmassperc",
                "difference_ratio",
                "total_body_softleanmass", "total_body_skeletalmusclemass")}
    \cup Complement("total_body_intracellularwaterperc",
                    "total_body_extracellularwater", "total_body_water")
    \cup Complement("total_body_fatmassperc", "total_body_fatfreemass",
                    "weight")

\* getattr(self, name) for an entry of Dir (a private attribute is never
\* read by to_dict)
Fitness_getattr(o, e) ==
    LET by == CASE e.by = "weight" -> weight(o)
                [] e.by = "height" -> height(o)
                [] e.by \in FitnessOutputs -> Fitness_get(o, e.by)
                [] OTHER -> None
    IN  CASE e.what = "method" -> BoundMethod
          [] e.what = "attribute" -> Computed
          [] e.what = "sex"    -> Str
          [] e.what = "age"    -> age(o)
          [] e.what = "weight" -> weight(o)
          [] e.what = "height" -> height(o)
          [] e.what = "bmi"    -> bmi(o)
          [] e.what = "segment"    -> segment(o, e.of)
          [] e.what = "impedance"  -> impedance(o, e.of)
          [] e.what = "phaseangle" -> phaseangle(o, e.of)
          [] e.what = "total_resistance" -> total_resistance(o, e.of)
          [] e.what = "total_reactance"  -> total_reactance(o, e.of)
          [] e.what = "total_impedance"  -> total_impedance(o, e.of)
          [] e.what = "total_phaseangle" -> total_phaseangle(o, e.of)
          [] e.what = "output" -> Fitness_get(o, e.of)
          [] e.what = "ratio"  -> Div(Fitness_get(o, e.of), by)
          [] e.what = "complement" -> Arith(<<Div(Fitness_get(o, e.of), by)>>)
          [] e.what = "difference" -> Arith(<<Fitness_get(o, e.of), by>>)
          [] e.what = "difference_ratio"
                -> Div(Arith(<<Fitness_get(o, e.of), by>>), weight(o))

\* BIAInput.to_dict: vals is the mapping {i: getattr(self, i)}; when raises
\* is not empty the first getattr that raises, in the order of dir, leaves
\* to_dict with one of the exceptions of raises
BIAInput_to_dict(o) ==
    LET Skipped == {"set", "to", "", "is", "fitness", "standard", "copy",
                    "apply"}
        kept == {e \in Dir : e.first \notin Skipped}
        vals == [n \in {e.name : e \in kept} |->
                    Fitness_getattr(o, CHOOSE e \in kept : e.name = n)]
    IN  [raises |-> {vals[n].k : n \in {m \in DOMAIN vals : IsExc(vals[m])}},
         vals |-> vals]

---------------------------------------------------------------------------
(* Inputs *)

Sexes   == {"M", "F"}
Heights == {1700, 1755}      \* tenths of a centimetre
Ages    == {30}
Weights == {75}

RECURSIVE SubsetsUpTo(_, _)
SubsetsUpTo(S, n) ==
    IF n = 0 THEN {{}}
    ELSE LET smaller == SubsetsUpTo(S, n - 1)
         IN  smaller \cup {T \cup {x} : T \in smaller, x \in S}

\* a plausible reading, in Ohm, for each segment
Ohm(s) ==
    CASE s = "left_arm_resistance"    -> 310
      [] s = "left_arm_reactance"     -> 31
      [] s = "left_leg_resistance"    -> 260
      [] s = "left_leg_reactance"     -> 27
      [] s = "left_trunk_resistance"  -> 28
      [] s = "left_trunk_reactance"   -> 4
      [] s = "left_body_resistance"   -> 500
      [] s = "left_body_reactance"    -> 50
      [] s = "right_arm_resistance"   -> 305
      [] s = "right_arm_reactance"    -> 30
      [] s = "right_leg_resistance"   -> 255
      [] s = "right_leg_reactance"    -> 26
      [] s = "right_trunk_resistance" -> 29
      [] s = "right_trunk_reactance"  -> 5
      [] s = "right_body_resistance"  -> 495
      [] s = "right_body_reactance"   -> 48

\* the arguments of CheckupBIA(...)
ArgSpace ==
    {[age |-> a, sex |-> sx, height |-> h, weight |-> wg,
      vals |-> [s \in Segs |-> IF s \in miss THEN None ELSE Num(Ohm(s), ty)],
      corrected |-> c] :
        a \in Ages, sx \in Sexes, h \in Heights, wg \in Weights,
        miss \in SubsetsUpTo(Segs, MaxMissing),
        ty \in {"float", "float64"}, c \in BOOLEAN}

\* a reading for each BIAMeasure input: resistances and reactances
MeasureOhm(n) == IF n \in {"left_arm_r", "left_leg_r", "left_trunk_r",
                           "left_body_r", "right_arm_r", "right_leg_r",
                           "right_trunk_r", "right_body_r", "upper_body_r",
                           "lower_body_r"}
                 THEN 400 ELSE 40

\* the arguments of BIAMeasure(...)
MeasureArgSpace ==
    {[age |-> a, sex |-> sx, height |-> h, weight |-> wg,
      vals |-> [n \in Inputs |->
                  IF n \in miss THEN None ELSE Num(MeasureOhm(n), "float")]] :
        a \in Ages, sx \in Sexes, h \in {1700}, wg \in Weights,
        miss \in SubsetsUpTo(Inputs, MaxMissing)}

\* values handed to a setter after construction
SetValues == {None, Num(333, "float")}

\* values handed to the correction functions
CorrValues == {None, Num(400, "float"), Num(37, "int")}

\* body resistances and reactances, in Ohm, on and around the bounds of
\* is_valid for a height of 170 cm
BodyResistances == {0, 339, 340, 400, 1020, 1021}
BodyReactances  == {16, 17, 40, 47, 48, 60, 90, 102, 103}

\* the arguments of a measurement whose validity is asked for
ValidArgSpace ==
    {[age |-> 30, sex |-> "M", height |-> 1700, weight |-> 75,
      vals |-> [s \in Segs |->
                  CASE s = "left_body_resistance"  -> Num(lr, ty)
                    [] s = "left_body_reactance"   -> Num(lx, ty)
                    [] s = "right_body_resistance" -> Num(rr, ty)
                    [] s = "right_body_reactance"  -> Num(rx, ty)
                    [] OTHER -> Num(Ohm(s), ty)],
      corrected |-> c] :
        lr \in BodyResistances, lx \in BodyReactances,
        rr \in BodyResistances, rx \in BodyReactances,
        ty \in {"float", "float64"}, c \in BOOLEAN}

\* sets of keys or columns: all input labels, all but one, one too many
KeySets ==
    {Range(input_labels)} \cup {Range(input_labels) \ {l} : l \in Range(input_labels)}
    \cup {Range(input_labels) \cup {"extra"}}

\* the data handed to OnnxModel.predict: arrays of 1 to 3 dimensions with
\* 14 to 16 columns, data frames, dicts of arrays, Series or scalars, and a
\* list
PredictInputs ==
    {[kind |-> "ndarray", ndim |-> d, ncols |-> c, keys |-> {},
      ty |-> [l \in {} |-> "ndarray"]] : d \in 1..3, c \in 14..16}
    \cup {[kind |-> "dataframe", ndim |-> 2, ncols |-> Cardinality(ks),
           keys |-> ks, ty |-> [l \in ks |-> "Series"]] : ks \in KeySets}
    \cup {[kind |-> "dict", ndim |-> 0, ncols |-> 0, keys |-> ks,
           ty |-> [l \in ks |-> t]] :
              ks \in KeySets, t \in {"ndarray", "Series", "float"}}
    \cup {[kind |-> "list", ndim |-> 1, ncols |-> 0, keys |-> {},
           ty |-> [l \in {} |-> "ndarray"]]}

\* the BIAInput segment that a BIAMeasure input measures
SegmentOf(n) ==
    CHOOSE s \in Segs :
        \E sd \in Sides, pt \in Parts :
            \/ n = sd \o "_" \o pt \o "_r"
                  /\ s = sd \o "_" \o pt \o "_resistance"
            \/ n = sd \o "_" \o pt \o "_x"
                  /\ s = sd \o "_" \o pt \o "_reactance"

\* the six resistances of the trunk-appendicular index
IndexResistances == {"left_trunk_r", "right_trunk_r", "left_arm_r",
                     "left_leg_r", "right_arm_r", "right_leg_r"}

\* one measurement handed to the checkupy variants ...
IndexArgSpace ==
    {[age |-> 30, sex |-> "M", height |-> h, weight |-> 75,
      vals |-> [s \in Segs |->
                  CASE s = "left_trunk_resistance" -> Num(lt, "float")
                    [] s = "left_arm_resistance"   -> Num(la, "float")
                    [] OTHER -> Num(Ohm(s), "float")],
      corrected |-> c] :
        h \in Heights, lt \in {28, 40}, la \in {310, 250}, c \in BOOLEAN}

\* ... and to BIAMeasure, where the inputs of miss are None
MeasureArgsOf(a, miss) ==
    [age |-> a.age, sex |-> a.sex, height |-> a.height, weight |-> a.weight,
     vals |-> [n \in Inputs |->
                 IF n \in miss THEN None
                 ELSE IF n \in {"upper_body_r", "upper_body_x",
                                "lower_body_r", "lower_body_x"}
                      THEN Num(MeasureOhm(n), "float")
                      ELSE a.vals[SegmentOf(n)]]]

---------------------------------------------------------------------------
(* Specifications *)

CheckupIdle ==
    /\ args = CHOOSE a \in ArgSpace : TRUE
    /\ pc = "idle"
    /\ attrs = [s \in Slots |-> NoInstance]
    /\ betas = ClassBetas
    /\ raised = ""
    /\ runs = 0
    /\ preds = {}

MeasureIdle ==
    /\ bia = BIAMeasure_init(CHOOSE a \in MeasureArgSpace : TRUE)
    /\ given = (CHOOSE a \in MeasureArgSpace : TRUE).vals
    /\ nsets = MaxSets

CorrIdle ==
    /\ v0 = None
    /\ cur = None
    /\ calls = <<>>

\* CheckupBIA(...) is called with arguments of ArgSpace
Init ==
    /\ args \in ArgSpace
    /\ pc = "start"
    /\ attrs = [s \in Slots |-> NoInstance]
    /\ betas = ClassBetas
    /\ raised = ""
    /\ runs = 0
    /\ preds = {}
    /\ MeasureIdle
    /\ CorrIdle

Next ==
    \/ ConstructFitness
    \/ ConstructStandard
    \/ ConstructInbody

Spec == Init /\ [][Next]_vars

\* a BIAMeasure has been constructed from arguments of MeasureArgSpace
InitMeasure ==
    /\ \E a \in MeasureArgSpace :
          /\ bia = BIAMeasure_init(a)
          /\ given = a.vals
    /\ nsets = 0
    /\ CheckupIdle
    /\ CorrIdle

NextMeasure == \E n \in Inputs, val \in SetValues : SetField(n, val)

SpecMeasure == InitMeasure /\ [][NextMeasure]_vars

\* a value is about to be handed to the correction functions
InitCorr ==
    /\ v0 \in CorrValues
    /\ cur = v0
    /\ calls = <<>>
    /\ CheckupIdle
    /\ MeasureIdle

NextCorr ==
    \E key \in Keys, adjust \in BOOLEAN, unadjust \in BOOLEAN :
        Apply(key, adjust, unadjust)

\* the variants are constructed from a measurement of ValidArgSpace
InitValid ==
    /\ args \in ValidArgSpace
    /\ pc = "start"
    /\ attrs = [s \in Slots |-> NoInstance]
    /\ betas = ClassBetas
    /\ raised = ""
    /\ runs = 0
    /\ preds = {}
    /\ MeasureIdle
    /\ CorrIdle

SpecValid == InitValid /\ [][Next]_vars

\* OnnxModel.predict is about to be called with data of PredictInputs
InitPredict ==
    /\ args \in PredictInputs
    /\ pc = "call"
    /\ attrs = [s \in Slots |-> NoInstance]
    /\ betas = ClassBetas
    /\ raised = ""
    /\ runs = 0
    /\ preds = {}
    /\ MeasureIdle
    /\ CorrIdle

NextPredict ==
    \/ Predict
    \/ \E name \in InbodyProperties : ReadOutput(name)

SpecPredict == InitPredict /\ [][NextPredict]_vars

\* the checkupy variants and a BIAMeasure are built from one measurement
InitIndex ==
    /\ \E a \in IndexArgSpace, miss \in SubsetsUpTo(IndexResistances, MaxMissing) :
          /\ args = a
          /\ bia = BIAMeasure_init(MeasureArgsOf(a, miss))
          /\ given = MeasureArgsOf(a, miss).vals
    /\ pc = "start"
    /\ attrs = [s \in Slots |-> NoInstance]
    /\ betas = ClassBetas
    /\ raised = ""
    /\ runs = 0
    /\ preds = {}
    /\ nsets = 0
    /\ CorrIdle

NextIndex ==
    \/ Next
    \/ \E n \in IndexResistances, val \in SetValues : SetField(n, val)

SpecIndex == InitIndex /\ [][NextIndex]_vars

SpecCorr == InitCorr /\ [][NextCorr]_vars

\* the correction functions are called with a caller's coefficient table
\* in which the slope of one of CustomKeys is zero
CustomKeys == {<<"LEFT", "ARM", "R">>, <<"LEFT", "ARM", "X">>,
               <<"RIGHT", "BODY", "X">>}

NextCustom ==
    \E key \in CustomKeys, zeroed \in CustomKeys,
       adjust \in BOOLEAN, unadjust \in BOOLEAN :
        ApplyCustom(key, adjust, unadjust, zeroed)

SpecCustom == InitCorr /\ [][NextCustom]_vars

\* the variants are constructed and their correction methods are called
NextObject ==
    \/ Next
    \/ \E slot \in {FitnessSlot, StandardSlot}, inverse \in BOOLEAN :
          CallCorrection(slot, inverse)

SpecObject == Init /\ [][NextObject]_vars

---------------------------------------------------------------------------
(* Properties *)

AllNumeric(a) == \A s \in Segs : IsNum(a.vals[s])

MissingSegs(a) == {s \in Segs : IsNone(a.vals[s])}

\* the value v with the orthostatic correction of bts[s] removed once
RemovedOnce(v, s) == [v EXCEPT !.w = <<<<betas[s][1], betas[s][2], -1>>>>]

\* the value v with the orthostatic correction of bts[s] applied once
AppliedOnce(v, s) == [v EXCEPT !.w = <<<<betas[s][1], betas[s][2], 1>>>>]

\* C1: for numeric subject attributes and segment values, constructing
\* CheckupBIA completes without raising (Inbody's call of predict with a
\* dict does not fail) and yields the three variants.
C1_ConstructionCompletes ==
    AllNumeric(args) =>
        /\ pc # "raised"
        /\ (pc = "done" => \A s \in Slots : attrs[s].state = "ok")

\* C2: after constructing Fitness every stored segment value is in the raw
\* frame: the supplied value when corrected_electrical_values is False, the
\* supplied value with the correction removed exactly once when it is True.
C2_FitnessRawFrame ==
    attrs["_fitness"].state = "ok" =>
        \A s \in Segs :
            attrs["_fitness"].vals[s] =
                IF args.corrected THEN RemovedOnce(args.vals[s], s)
                ELSE args.vals[s]

\* C3: after constructing Standard every stored segment value is in the
\* corrected frame: v*b1 + b0 when the supplied value was raw, the supplied
\* value itself when it was flagged already corrected.
C3_StandardCorrectedFrame ==
    attrs["_standard"].state = "ok" =>
        \A s \in Segs :
            attrs["_standard"].vals[s] =
                IF args.corrected THEN args.vals[s]
                ELSE AppliedOnce(args.vals[s], s)

GuardedOutputs ==
    {p \o "_phase_angle_deg" : p \in PhaseAngles} \cup
    {"tbw_std", "tbw_atl", "ecw_std", "ffm_std", "ffm_atl", "smm_std",
     "smm_atl", "smm_left_arm", "smm_right_arm", "smm_left_leg",
     "smm_right_leg", "_trunk_appendicular_index", "bmr_std", "bmr_atl",
     "lst_std", "lst_atl", "bmc"}

IndexInputs == {"left_trunk_r", "right_trunk_r", "left_arm_r", "left_leg_r",
                "right_arm_r", "right_leg_r"}

\* the electrical inputs an output is computed from
Required(o) ==
    CASE o \in {p \o "_phase_angle_deg" : p \in PhaseAngles} ->
            LET seg == CHOOSE p \in PhaseAngles : o = p \o "_phase_angle_deg"
            IN  {seg \o "_r", seg \o "_x"}
      [] o \in {"tbw_std", "tbw_atl", "ffm_atl", "smm_std", "smm_atl",
                "bmr_atl", "bmc"} -> {"right_body_r"}
      [] o \in {"ecw_std", "ffm_std", "bmr_std", "lst_atl"} ->
            {"right_body_r", "right_body_x"}
      [] o = "_trunk_appendicular_index" -> IndexInputs
      [] o = "smm_left_arm"  -> IndexInputs
      [] o = "smm_right_arm" -> IndexInputs
      [] o = "smm_left_leg"  -> IndexInputs
      [] o = "smm_right_leg" -> IndexInputs
      [] o = "lst_std" -> IndexInputs \cup {"left_body_r", "right_body_r"}

\* None, or a pair of Nones
NoValue(r) == \A i \in DOMAIN r : IsNone(r[i])

\* a number, or a pair of numbers
Numeric(r) == \A i \in DOMAIN r : IsNumeric(r[i])

\* C5: each guarded output of BIAMeasure carries no numeric value and does
\* not raise whenever one of its required electrical inputs is None, and is
\* numeric when all of them are present.
C5_GuardedOutputs ==
    \A o \in GuardedOutputs :
        IF \E n \in Required(o) : IsNone(given[n])
        THEN NoValue(BIAMeasure_get(bia, o))
        ELSE Numeric(BIAMeasure_get(bia, o))

\* C6: ecw_atl, and icw_atl which reads it, return a None-valued result
\* instead of raising when right_body_r or right_body_x is None.
C6_EcwAtlNone ==
    (IsNone(given["right_body_r"]) \/ IsNone(given["right_body_x"])) =>
        /\ ~Raises(ecw_atl(bia))
        /\ ~Raises(icw_atl(bia))
        /\ \E i \in DOMAIN ecw_atl(bia) : IsNone(ecw_atl(bia)[i])

\* C7: fm_std and fm_atl return (None, None) instead of raising whenever the
\* corresponding fat-free mass is (None, None), and to_dict() on a
\* BIAMeasure whose right-body values are missing does not raise.
C7_FatMassNone ==
    /\ ffm_std(bia) = <<None, None>> => fm_std(bia) = <<None, None>>
    /\ ffm_atl(bia) = <<None, None>> => fm_atl(bia) = <<None, None>>
    /\ (IsNone(given["right_body_r"]) /\ IsNone(given["right_body_x"]))
          => BIAMeasure_to_dict(bia).exc = ""

\* the Fitness outputs computed from the trunk value s
TrunkDependent(s) ==
    IF s \in {"left_trunk_resistance", "right_trunk_resistance"}
    THEN {"total_trunk_fatmass", "total_trunk_fatfreemass",
          "left_arm_fatfreemass", "right_arm_fatfreemass",
          "left_leg_fatfreemass", "right_leg_fatfreemass"}
    ELSE {"total_trunk_fatfreemass"}

WholeBodyOutputs ==
    {"total_body_water", "total_body_extracellularwater",
     "total_body_intracellularwater", "total_body_fatfreemass",
     "total_body_fatmass", "total_body_bonemineralcontent",
     "total_body_softleanmass", "total_body_skeletalmusclemass",
     "total_body_basalmetabolicrate"}

\* C8: in a Fitness measurement with exactly one trunk value None and every
\* other input numeric, each output that depends on that trunk value is None
\* rather than an exception, and the whole-body outputs are numeric.
C8_TrunkNone ==
    \A s \in TrunkSegs :
        (attrs["_fitness"].state = "ok" /\ MissingSegs(args) = {s}) =>
            /\ \A n \in TrunkDependent(s) :
                   IsNone(Fitness_get(attrs["_fitness"], n))
            /\ \A n \in WholeBodyOutputs :
                   IsNumeric(Fitness_get(attrs["_fitness"], n))

\* C9: applying or removing the orthostatic correction maps a missing value
\* to None without raising, so constructing Standard, or any variant with
\* corrected_electrical_values=True, with one segment value None completes
\* and leaves that value None.
C9_NoneThroughCorrection ==
    \A s \in Segs :
        MissingSegs(args) = {s} =>
            /\ raised # "TypeError"
            /\ pc \in {"standard", "done"} =>
                   IsNone(attrs["_standard"].vals[s])

\* call i applies the correction of a row, call i + 1 removes it
RoundTripAt(i) ==
    /\ i + 1 <= Len(calls)
    /\ calls[i].key = calls[i + 1].key
    /\ calls[i].adjust /\ ~calls[i].unadjust
    /\ ~calls[i + 1].adjust /\ calls[i + 1].unadjust
    /\ IsNum(calls[i].inp)

\* the same number, whatever the Python type holding it
SameNumber(a, b) == a.k = "num" /\ b.k = "num" /\ a.v = b.v /\ a.w = b.w

C11_ZeroSlopeSignalled ==
    \A i \in DOMAIN calls :
        (calls[i].unadjust /\ calls[i].zeroed = calls[i].key
            /\ IsNum(calls[i].inp))
        => calls[i].out.k \notin {"inf", "nan"}

\* the four body values of an instance are present
BodyValues == {"left_body_resistance", "left_body_reactance",
               "right_body_resistance", "right_body_reactance"}

\* the phase angle of (r, x), in units of 10^-3 Ohm, is at least 3 degrees
\* and at most 12 degrees, stated on the tangent: tan 3 = 0.052407779 and
\* tan 12 = 0.212556562
PhaseAtLeast3(r, x) ==
    IF r > 0 THEN x >= MulDec(r, Dec(1, 0, 52407779))
    ELSE x <= MulDec(r, Dec(1, 0, 52407779))

PhaseAtMost12(r, x) ==
    IF r > 0 THEN x <= MulDec(r, Dec(1, 0, 212556562))
    ELSE x >= MulDec(r, Dec(1, 0, 212556562))

\* the six checks of one side as the claim states them
SidePlausible(o, side) ==
    LET r == Milli(o.vals[side \o "_body_resistance"])
        x == Milli(o.vals[side \o "_body_reactance"])
    IN  /\ 2000 * o.hcm <= r /\ r <= 6000 * o.hcm
        /\ 100 * o.hcm <= x /\ x <= 600 * o.hcm
        /\ PhaseAtLeast3(r, x) /\ PhaseAtMost12(r, x)

\* the difference of the left and right body phase angles is at most 1
\* degree
SidesAgree(o) ==
    LET l == phaseangle_deg(o.vals["left_body_resistance"],
                            o.vals["left_body_reactance"])
        r == phaseangle_deg(o.vals["right_body_resistance"],
                            o.vals["right_body_reactance"])
    IN  l.v - r.v <= 1000 /\ r.v - l.v <= 1000

C13_NoneIsInvalid ==
    \A slot \in {"_fitness", "_standard"} :
        LET o == attrs[slot]
        IN  (o.state = "ok" /\ \E s \in BodyValues : IsNone(o.vals[s]))
            => is_valid(o) = Bool(FALSE)

\* C14: for the same construction arguments is_valid returns the same
\* Boolean on the Fitness variant and on the Standard variant.
C14_SameVerdict ==
    (attrs["_fitness"].state = "ok" /\ attrs["_standard"].state = "ok")
    => is_valid(attrs["_fitness"]) = is_valid(attrs["_standard"])

Regions == {"arm", "leg", "trunk", "body"}

\* a is b up to d units
Near(a, b, d) == a - b <= d /\ b - a <= d

\* C15: total_<region>_impedance and total_<region>_phaseangle are the
\* impedance and the phase angle of the side-averaged resistance and
\* reactance (up to 0.5 Ohm and 0.01 degree of evaluation error), not the
\* mean of the two sides' impedances and phase angles.
C15_AggregateThenDerive ==
    LET o == attrs["_fitness"]
    IN  (/\ o.state = "ok"
         /\ ~args.corrected
         /\ o.vals["left_body_resistance"].v # 0
         /\ o.vals["right_body_resistance"].v # 0)
        => \A region \in Regions :
              LET r == total_resistance_ohm(o, region)
                  x == total_reactance_ohm(o, region)
              IN  /\ Near(total_impedance_ohm(o, region),
                          100 * Hypot(r, x), 500)
                  /\ Near(total_phaseangle_deg(o, region), AtanDeg(r, x), 10)

\* C17: every key an Inbody property reads from _preds is one of the
\* output labels under which predict returns its results: no read of a
\* property on the returned mapping raises KeyError.
C17_OutputKeysServed ==
    raised # "KeyError"

\* the data predict was handed is malformed
Malformed ==
    \/ args.kind = "ndarray" /\ (args.ndim # 2 \/ args.ncols # Len(input_labels))
    \/ args.kind \in {"dataframe", "dict"}
          /\ ~(Range(input_labels) \subseteq args.keys)
    \/ args.kind \notin {"ndarray", "dataframe", "dict"}

\* C18: predict rejects malformed input before any inference is run: a
\* badly shaped array and a data frame or dict without an input label raise
\* ValueError, any other type raises TypeError, and the session is not
\* invoked.
C18_MalformedRejected ==
    (pc # "call" /\ Malformed)
    => /\ runs = 0
       /\ raised = IF args.kind \in {"ndarray", "dataframe", "dict"}
                   THEN "ValueError" ELSE "TypeError"

\* C18 witness: predict has rejected a dict without one of the labels.
C18_Witness ==
    /\ pc = "raised"
    /\ args.kind = "dict"
    /\ Cardinality(args.keys) = Len(input_labels) - 1
    /\ raised = "ValueError"
    /\ runs = 0

\* the mapping Inbody.__init__ hands to the predictor for the arguments a
InbodyMapping(a) == Inbody_inputs(Inbody_init(a, ClassBetas).obj)

\* the fifteen labels in the order of the claim
FifteenLabels ==
    <<"height", "weight", "age",
      "left_arm_resistance", "left_arm_reactance",
      "left_leg_resistance", "left_leg_reactance",
      "left_body_resistance", "left_body_reactance",
      "right_arm_resistance", "right_arm_reactance",
      "right_leg_resistance", "right_leg_reactance",
      "right_body_resistance", "right_body_reactance">>

\* the mapping has exactly the fifteen labels, in order, and holds the
\* supplied values
MappingAsSupplied(a) ==
    /\ input_labels = FifteenLabels
    /\ InbodyMapping(a).keys = Range(FifteenLabels)
    /\ \A l \in Range(FifteenLabels) \cap Segs :
          InbodyMapping(a).val[l] = a.vals[l]

NumberOrNone == {"int", "float", "float64", "NoneType"}

\* C19: to_dict returns, for each variant, a mapping whose every value is a
\* number or None, never a bound method such as
\* remove_orthostatic_correction nor any other non-numeric object.
C19_ExportIsNumeric ==
    attrs["_fitness"].state = "ok"
    => LET d == BIAInput_to_dict(attrs["_fitness"])
       IN  /\ d.raises = {}
           /\ \A n \in DOMAIN d.vals : d.vals[n].ty \in NumberOrNone

\* the index as the claim states it, over six resistances in units of
\* 10^-3: 2 * (lt + rt) / (la + ll + ra + rl), in units of 10^-6
ClaimedIndex(r) ==
    LET num == 2 * (r[1] + r[2])
        den == r[3] + r[4] + r[5] + r[6]
    IN  (IF (num < 0) = (den < 0) THEN 1 ELSE -1)
        * LongDiv(IF num < 0 THEN -num ELSE num,
                  IF den < 0 THEN -den ELSE den, 6)

\* the six stored resistances of a checkupy instance and of the BIAMeasure
StoredSix(o) ==
    <<o.vals["left_trunk_resistance"], o.vals["right_trunk_resistance"],
      o.vals["left_arm_resistance"], o.vals["left_leg_resistance"],
      o.vals["right_arm_resistance"], o.vals["right_leg_resistance"]>>

MeasuredSix ==
    <<bia.f["_left_trunk_r"], bia.f["_right_trunk_r"], bia.f["_left_arm_r"],
      bia.f["_left_leg_r"], bia.f["_right_arm_r"], bia.f["_right_leg_r"]>>

Magnitudes(six) == [i \in 1..6 |-> Milli(six[i])]

\* C20: the trunk-appendicular index is 2*(left_trunk_r + right_trunk_r) /
\* (left_arm_r + left_leg_r + right_arm_r + right_leg_r) over the stored
\* resistances, by the same formula for Fitness, Standard and BIAMeasure;
\* in BIAMeasure it is None when any of the six resistances is None.
C20_SameIndex ==
    /\ \A slot \in {"_fitness", "_standard"} :
          attrs[slot].state = "ok"
          => /\ trunk_appendicular_index_value(attrs[slot])
                  = Ratio(ClaimedIndex(Magnitudes(StoredSix(attrs[slot]))))
             /\ (\A i \in 1..6 : IsNum(MeasuredSix[i])
                      /\ Milli(MeasuredSix[i]) = Milli(StoredSix(attrs[slot])[i]))
                => BIAMeasure_trunk_appendicular_index_value(bia)
                     = trunk_appendicular_index_value(attrs[slot])
    /\ BIAMeasure_trunk_appendicular_index_value(bia)
         = IF \E i \in 1..6 : IsNone(MeasuredSix[i]) THEN None
           ELSE Ratio(ClaimedIndex(Magnitudes(MeasuredSix)))
    /\ IsNone(BIAMeasure_trunk_appendicular_index(bia))
         = (\E i \in 1..6 : IsNone(MeasuredSix[i]))

\* C20 witness: a Fitness and a BIAMeasure hold the same six resistances
\* and report the same index, here 2 * (40 + 29) / (250 + 260 + 305 + 255).
C20_Witness ==
    /\ attrs["_fitness"].state = "ok"
    /\ ~args.corrected
    /\ \A i \in 1..6 : MeasuredSix[i] = StoredSix(attrs["_fitness"])[i]
    /\ args.vals["left_trunk_resistance"].v = 40
    /\ args.vals["left_arm_resistance"].v = 250
    /\ BIAMeasure_trunk_appendicular_index_value(bia) = Ratio(128971)
    /\ trunk_appendicular_index_value(attrs["_fitness"]) = Ratio(128971)

\* C21: each of the 20 electrical accessors of BIAMeasure returns the value
\* last given for its own name, at construction or by its own setter; in
\* particular upper_body_x and lower_body_x hold what set_upper_body_x and
\* set_lower_body_x were last given, and no setter changes another field.
C21_OwnField ==
    \A n \in Inputs : BIAMeasure_read(bia, n) = given[n]

\* the first elements of the pairs a and b add up to total (units of
\* 10^-3, within the truncation of the evaluation) when all are numbers
AddUp(a, b, total) ==
    (Len(a) = 2 /\ Len(b) = 2 /\ a[1].k = "milli" /\ b[1].k = "milli"
       /\ total.k = "milli")
    => a[1].v + b[1].v - total.v \in -5..5

\* C22: mass conservation in BIAMeasure, for the std and the atl equations:
\* fat mass + fat-free mass = weight, intracellular + extracellular water
\* = total body water, lean soft mass + bone mineral content = fat-free
\* mass.
C22_MassConservation ==
    /\ AddUp(fm_std_value(bia), ffm_std_value(bia), Float(bia.wgt * 1000))
    /\ AddUp(fm_atl_value(bia), ffm_atl_value(bia), Float(bia.wgt * 1000))
    /\ AddUp(icw_std_value(bia), ecw_std_value(bia), tbw_std_value(bia)[1])
    /\ AddUp(icw_atl_value(bia), ecw_atl_value(bia), tbw_atl_value(bia)[1])
    /\ AddUp(lst_std_value(bia), bmc_value(bia), ffm_std_value(bia)[1])
    /\ AddUp(lst_atl_value(bia), bmc_value(bia), ffm_atl_value(bia)[1])

\* weight / (height / 100)^2 in units of 10^-3, for a weight in kg and a
\* height in whole centimetres
ClaimedBmi(kg, cm) == (kg * 10000000) \div (cm * cm)

\* C23: bmi is weight / (height/100)^2 over the stored weight and the
\* stored height, which is the supplied height truncated to whole
\* centimetres, in BIAInput (Fitness, Standard) and in BIAMeasure alike.
C23_Bmi ==
    /\ \A slot \in {"_fitness", "_standard"} :
          attrs[slot].state = "ok"
          => /\ attrs[slot].hcm * 10 <= args.height
             /\ args.height < (attrs[slot].hcm + 1) * 10
             /\ attrs[slot].wgt = args.weight
             /\ bmi_value(attrs[slot]).k = "milli"
             /\ bmi_value(attrs[slot]).v
                  = ClaimedBmi(args.weight, attrs[slot].hcm)
    /\ bia.hcm * 10 <= args.height
    /\ args.height < (bia.hcm + 1) * 10
    /\ BIAMeasure_bmi_value(bia).k = "milli"
    /\ BIAMeasure_bmi_value(bia).v = ClaimedBmi(args.weight, bia.hcm)

\* C23 witness: 175.5 cm is stored as 175 and the bmi of 75 kg is 24.489
C23_Witness ==
    /\ args.height = 1755
    /\ attrs["_standard"].state = "ok"
    /\ attrs["_standard"].hcm = 175
    /\ bmi_value(attrs["_standard"]).v = 24489
    /\ BIAMeasure_bmi_value(bia).v = 24489

\* two correction calls in a row on one instance: the i-th and the next
InARow(i) ==
    /\ i + 1 <= Len(calls)
    /\ calls[i].slot = calls[i + 1].slot

\* C24: apply_orthostatic_correction applies only if not yet applied and
\* remove_orthostatic_correction removes only if applied: calling either
\* twice in a row leaves the 16 stored values as after the first call.
C24_Idempotent ==
    \A i \in 1..Len(calls) :
        (InARow(i) /\ calls[i].inverse = calls[i + 1].inverse)
        => calls[i + 1].after = calls[i].after

\* the frame of the stored values of an instance, against the supplied
\* values and the frame they were declared in
InCorrectedFrame(o) ==
    \A s \in Segs :
        IsNum(args.vals[s])
        => o.vals[s] = IF args.corrected THEN args.vals[s]
                       ELSE AppliedOnce(args.vals[s], s)

InRawFrame(o) ==
    \A s \in Segs :
        IsNum(args.vals[s])
        => o.vals[s] = IF args.corrected THEN RemovedOnce(args.vals[s], s)
                       ELSE args.vals[s]

\* C25: is_corrected() is True exactly when the stored electrical values
\* are in the orthostatically corrected frame, after construction and
\* after any sequence of apply / remove calls.
C25_FlagAgreesWithFrame ==
    \A slot \in {"_fitness", "_standard"} :
        attrs[slot].state = "ok"
        => IF is_corrected(attrs[slot]) THEN InCorrectedFrame(attrs[slot])
           ELSE InRawFrame(attrs[slot])

\* C28: on an instance holding raw values (flag False) apply followed by
\* remove, and on an instance flagged corrected remove followed by apply,
\* restores each of the 16 stored values to its value before the two calls.
C28_ObjectRoundTrip ==
    \A i \in 1..Len(calls) :
        (/\ InARow(i)
         /\ calls[i].inverse # calls[i + 1].inverse
         /\ calls[i].flag = calls[i].inverse)
        => calls[i + 1].after = calls[i].before

\* an icw pair as the claim states it, for numeric tbw and ecw pairs:
\* litres tbw - ecw, then icw / tbw, the fractions of ecw and icw adding
\* up to 1 (units of 10^-3, within the truncation of the evaluation)
IcwAsClaimed(icw, tbw, ecw) ==
    (Len(tbw) = 2 /\ Len(ecw) = 2 /\ tbw[1].k = "milli" /\ ecw[1].k = "milli"
       /\ ecw[2].k = "milli")
    => /\ Len(icw) = 2
       /\ icw[1] = Float(tbw[1].v - ecw[1].v)
       /\ icw[2].k = "milli"
       /\ icw[2].v - Per(icw[1].v, tbw[1].v) \in -2..2
       /\ ecw[2].v + icw[2].v - 1000 \in -5..5

\* C26: icw_std and icw_atl return the intracellular water in litres
\* (tbw - ecw) and, second, its fraction of the total body water, so that
\* the second elements of ecw and icw sum to 1.
C26_IcwFraction ==
    /\ IcwAsClaimed(icw_std_value(bia), tbw_std_value(bia), ecw_std_value(bia))
    /\ IcwAsClaimed(icw_atl_value(bia), tbw_atl_value(bia), ecw_atl_value(bia))

\* C27: a phase angle over a resistance of 0 with a numeric reactance
\* signals an error and is never a numeric angle, and is_valid, which
\* reads the body phase angles, fails the same way.
C27_ZeroResistanceSignalled ==
    \A slot \in {"_fitness", "_standard"}, side \in Sides :
        LET o   == attrs[slot]
            res == segment(o, side \o "_body_resistance")
            rea == segment(o, side \o "_body_reactance")
        IN  (o.state = "ok" /\ IsNum(res) /\ IsNum(rea) /\ Milli(res) = 0)
            => /\ IsExc(phaseangle_deg(res, rea))
               /\ IsExc(is_valid(o))

\* a Standard instance holding the subject and the right-body values of
\* the BIAMeasure
SameSubject ==
    Instance("ok", bia.age, bia.sex, bia.hcm, bia.wgt,
             [s \in Segs |->
                CASE s = "right_body_resistance" ->
                        BIAMeasure_read(bia, "right_body_r")
                  [] s = "right_body_reactance" ->
                        BIAMeasure_read(bia, "right_body_x")
                  [] OTHER -> None],
             FALSE)

\* C29: in ecw_std and bmc the sex term counts for females only (+1.86 l
\* and -0.12978 kg, 0 for males), so that ecw_std and bmc agree with
\* Standard.total_body_extracellularwater and
\* Standard.total_body_bonemineralcontent for the same right-body values
\* and subject.
C29_SexTerm ==
    (/\ IsNum(BIAMeasure_read(bia, "right_body_r"))
     /\ IsNum(BIAMeasure_read(bia, "right_body_x")))
    => /\ ecw_std_value(bia)[1].v
            - Standard_total_body_extracellularwater(SameSubject).v \in -3..3
       /\ bmc_value(bia)[1].v
            - Standard_total_body_bonemineralcontent(SameSubject).v \in -3..3

\* the arguments of a second construction that differs from a only in the
\* sex and/or in trunk values
Alternatives(a) ==
    {[a EXCEPT !.sex = sx,
               !.vals = [s \in Segs |->
                           IF s \in changed THEN t ELSE a.vals[s]]] :
        sx \in Sexes, changed \in SUBSET TrunkSegs,
        t \in {None, Num(33, "float")}}

\* what Inbody.__init__ leaves for the arguments a: the state stored by
\* super().__init__, the mapping built for the predictor, and how the
\* constructor ends
InbodySection(a) ==
    LET r == Inbody_init(a, betas)
    IN  [age |-> r.obj.age, sex |-> r.obj.sex, hcm |-> r.obj.hcm,
         wgt |-> r.obj.wgt, vals |-> r.obj.vals,
         corrected |-> r.obj.corrected, inputs |-> Inbody_inputs(r.obj),
         ends |-> r.obj.state, runs |-> r.runs, preds |-> r.preds]

\* the construction of CheckupBIA has reached self._inbody = Inbody(...)
InbodyReached ==
    /\ attrs["_standard"].state = "ok"
    /\ pc \in {"done", "raised"}

\* C30: the Inbody variant does not depend on the sex or on the trunk
\* values: a construction that differs only in those gives Inbody the same
\* stored state and the same predictor input, and its sex is "M".
C30_InbodyIgnoresSexAndTrunk ==
    InbodyReached
    => /\ InbodySection(args).sex = "M"
       /\ is_male(Inbody_init(args, betas).obj)
       /\ \A s \in TrunkSegs : InbodySection(args).vals[s] = NaN
       /\ raised = IF pc = "raised" THEN InbodySection(args).ends ELSE ""
       /\ \A b \in Alternatives(args) : InbodySection(b) = InbodySection(args)

\* C30 witness: Inbody has been reached for a female subject with numeric
\* trunk values; a male subject with other trunk values is an alternative.
C30_Witness ==
    /\ InbodyReached
    /\ args.sex = "F"
    /\ AllNumeric(args)
    /\ \E b \in Alternatives(args) :
          /\ b.sex = "M"
          /\ b.vals["left_trunk_resistance"] = Num(33, "float")
          /\ b.vals["left_trunk_resistance"] # args.vals["left_trunk_resistance"]

====
